---- MODULE Spec2Model ----
(***************************************************************************)
(* Model of the website analyzer: the URL validation of utils.py, the      *)
(* orchestrator ComprehensiveWebsiteAnalyzer.analyze_website, the probe    *)
(* sequence of ProtectionAnalyzer.analyze and the outcome of               *)
(* StructureAnalyzer.analyze.  Separate specifications run the parts that  *)
(* are functions of one input: the classification of a document            *)
(* (DomSpec), the Cloudflare and CAPTCHA checks of a page (PageSpec), the  *)
(* two scores of the structure engine (MetricSpec), one request under the  *)
(* retry policy (RetrySpec), one call under retry_on_failure (WrapperSpec) *)
(* and the analysis threads of the GUI (GuiSpec).                          *)
(*                                                                         *)
(* Strings that the code parses (URLs) are sequences of one-character      *)
(* strings.  An HTTP exchange is an environment choice of the status the   *)
(* server answers, 0 standing for "the request raised" exactly as the code *)
(* records 'status_code': 0 in its except branches.                        *)
(***************************************************************************)
EXTENDS Integers, Sequences, FiniteSets, TLC

(***************************************************************************)
(* Bounds of the model.                                                    *)
(***************************************************************************)
\* analyze_website is started only while analysis_count is below this bound
MaxAnalyses == 1

\* a document holds at most this many elements
MaxNodes == 3

\* at most this many run_analysis threads exist at a time
MaxRuns == 2

\* retry_on_failure is given a max_attempts of at most this
MaxAttempts == 3

(***************************************************************************)
(* Characters and string helpers (str.strip, str.startswith, str.find).    *)
(***************************************************************************)
Letters == {"a", "b", "f", "h", "p", "s", "t"}

Digits == {"1"}

AlNum == Letters \cup Digits

\* characters urllib.parse accepts inside a scheme
SchemeChars == AlNum \cup {"+", "-", "."}

Whitespace == {" "}

RECURSIVE LStrip(_)
LStrip(s) ==
    IF s # <<>> /\ Head(s) \in Whitespace THEN LStrip(Tail(s)) ELSE s

RECURSIVE RStrip(_)
RStrip(s) ==
    IF s # <<>> /\ s[Len(s)] \in Whitespace
    THEN RStrip(SubSeq(s, 1, Len(s) - 1))
    ELSE s

\* str.strip()
Strip(s) == RStrip(LStrip(s))

\* str.startswith(p)
StartsWith(s, p) == Len(s) >= Len(p) /\ SubSeq(s, 1, Len(p)) = p

\* index of the first character of s that is in cs, 0 when there is none
FindChar(s, cs) ==
    IF \E i \in 1..Len(s) : s[i] \in cs
    THEN CHOOSE i \in 1..Len(s) :
            s[i] \in cs /\ \A k \in 1..(i - 1) : s[k] \notin cs
    ELSE 0

HttpPrefix == <<"h", "t", "t", "p", ":", "/", "/">>

HttpsPrefix == <<"h", "t", "t", "p", "s", ":", "/", "/">>

(***************************************************************************)
(* urllib.parse.urlparse, as far as validate_url reads it: scheme, netloc. *)
(***************************************************************************)
\* position of the ':' that ends a well-formed scheme, 0 when there is none
SchemeEnd(s) ==
    LET i == FindChar(s, {":"})
    IN  IF i > 1 /\ s[1] \in Letters
           /\ \A k \in 1..(i - 1) : s[k] \in SchemeChars
        THEN i ELSE 0

UrlScheme(s) ==
    IF SchemeEnd(s) = 0 THEN <<>> ELSE SubSeq(s, 1, SchemeEnd(s) - 1)

UrlNetloc(s) ==
    LET r == SubSeq(s, SchemeEnd(s) + 1, Len(s))
    IN  IF Len(r) >= 2 /\ r[1] = "/" /\ r[2] = "/"
        THEN LET rest == SubSeq(r, 3, Len(r))
                 d == FindChar(rest, {"/", "?", "#"})
             IN  IF d = 0 THEN rest ELSE SubSeq(rest, 1, d - 1)
        ELSE <<>>

\* parsed.netloc.split(':')[0]
HostPart(netloc) ==
    LET c == FindChar(netloc, {":"})
    IN  IF c = 0 THEN netloc ELSE SubSeq(netloc, 1, c - 1)

\* one label of domain_pattern: [a-zA-Z0-9]([a-zA-Z0-9\-]{0,61}[a-zA-Z0-9])?
LabelMatches(l) ==
    /\ Len(l) >= 1
    /\ Len(l) <= 63
    /\ l[1] \in AlNum
    /\ l[Len(l)] \in AlNum
    /\ \A k \in 1..Len(l) : l[k] \in AlNum \cup {"-"}

\* domain_pattern.match(host): labels separated by single dots
RECURSIVE DomainMatches(_)
DomainMatches(h) ==
    LET d == FindChar(h, {"."})
    IN  IF d = 0 THEN LabelMatches(h)
        ELSE /\ LabelMatches(SubSeq(h, 1, d - 1))
             /\ DomainMatches(SubSeq(h, d + 1, Len(h)))

\* the url after strip() and after the default scheme has been prepended
Normalize(url) ==
    LET s == Strip(url)
    IN  IF StartsWith(s, HttpPrefix) \/ StartsWith(s, HttpsPrefix)
        THEN s ELSE HttpsPrefix \o s

\* validate_url: ok = FALSE stands for the ValueError it raises, otherwise
\* url is the value it returns
validate_url(url) ==
    IF url = <<>> THEN [ok |-> FALSE, url |-> <<>>]
    ELSE LET n == Normalize(url)
         IN  IF UrlNetloc(n) = <<>> THEN [ok |-> FALSE, url |-> <<>>]
             ELSE IF UrlScheme(n) \notin {<<"h", "t", "t", "p">>,
                                          <<"h", "t", "t", "p", "s">>}
                  THEN [ok |-> FALSE, url |-> <<>>]
             ELSE IF ~DomainMatches(HostPart(UrlNetloc(n)))
                  THEN [ok |-> FALSE, url |-> <<>>]
             ELSE [ok |-> TRUE, url |-> n]

(***************************************************************************)
(* The inputs handed to analyze_website.                                   *)
(***************************************************************************)
UrlHttp == <<"h", "t", "t", "p", ":", "/", "/", "a", ".", "b">>

UrlPadded == <<" ", "a", ".", "b", " ">>

UrlNoScheme == <<"a", ".", "b">>

UrlFtp == <<"f", "t", "p", ":", "/", "/", "a", ".", "b">>

UrlEmpty == <<>>

UrlBlank == <<" ">>

UrlNoHost == <<"h", "t", "t", "p", ":", "/", "/">>

UrlBadHost == <<"h", "t", "t", "p", ":", "/", "/", "a", "_", "b">>

UrlBadLabel == <<"-", "a", ".", "b">>

UrlInputs ==
    {UrlHttp, UrlPadded, UrlNoScheme, UrlFtp, UrlEmpty, UrlBlank,
     UrlNoHost, UrlBadHost, UrlBadLabel}

AnalysisTypes == {"protection", "structure", "both"}


(***************************************************************************)
(* State.                                                                  *)
(***************************************************************************)
VARIABLES
    caps,            \* the optional modules that imported: UA_AVAILABLE, ...
    analysis_count,  \* ComprehensiveWebsiteAnalyzer.analysis_count
    opc,             \* where analyze_website is
    in_url,          \* the url argument of analyze_website
    analysis_type,   \* the analysis_type argument of analyze_website
    result,          \* the results dict analyze_website builds and returns
    error,           \* the exception analyze_website raised, "none" if none
    ppc,             \* where ProtectionAnalyzer.analyze is
    prot_url,        \* the url argument of ProtectionAnalyzer.analyze
    results,         \* the results dict of ProtectionAnalyzer.analyze
    basic_raw,       \* what the target answered to the basic-access get
    offline,         \* every request after the basic-access one raises
    loop_i,          \* loop index of the User-Agent and rate-limit probes
    last,            \* results[-1] of the running loop and the header sent
    blocked_count,   \* blocked results collected by the running loop
    elapsed,         \* clock ticks between start_time and now (rate limit)
    issued,          \* the probes that issued a request in the current call
    driver,          \* ProtectionAnalyzer.driver
    struct_url,      \* the url argument of StructureAnalyzer.analyze
    structure,       \* what StructureAnalyzer.analyze returned
    fetches,         \* page fetches of the structure engine in this call
    exported         \* the file export_results wrote, NotExported if none

\* the parsed document and what StructureAnalyzer computes from it
VARIABLES
    soup,                \* the BeautifulSoup document: its elements in order
    content_types,       \* what detect_content_types returned
    suggested_selectors, \* what generate_selectors returned
    previous_selectors,  \* suggested_selectors of the analysis before
    spc                  \* where the analysis of the document is

\* analyses started from the GUI: one run_analysis thread per start
VARIABLES
    run,             \* where each run_analysis thread is
    shared_driver,   \* ProtectionAnalyzer.driver of the one shared analyzer
    browsers,        \* how many browsers uc.Chrome has started
    using            \* the browser each thread is driving, 0 if none

\* one HTTP request of the protection engine, attempt by attempt
VARIABLES
    transport,       \* the session the request goes through
    answers,         \* what the server answered to each attempt so far
    rpc              \* where the request is

\* one page as the Cloudflare and CAPTCHA probes read it
VARIABLES
    page,            \* the headers and the body the target answers with
    received,        \* the probes whose get returned a response
    cloudflare,      \* results['mechanisms']['cloudflare']
    captcha,         \* results['mechanisms']['captcha']
    cpc              \* the probe that runs next

\* the counts of one parsed page and the two scores computed from them
VARIABLES
    metrics,             \* what analyze has collected in results so far
    performance,         \* what analyze_performance_indicators returned
    parsing_complexity,  \* what evaluate_parsing_complexity returned
    mpc                  \* the step of analyze that runs next

\* one call of a function wrapped by retry_on_failure
VARIABLES
    max_attempts,    \* the max_attempts argument of retry_on_failure
    delay,           \* the delay argument of retry_on_failure
    attempt,         \* the loop variable of wrapper
    last_exception,  \* last_exception of wrapper
    history,         \* how each call of func ended, in order
    sleeps,           \* the argument of each time.sleep, in order
    outcome,         \* how the call of wrapper ended
    wpc              \* where wrapper is

engine_vars ==
    <<caps, analysis_count, opc, in_url, analysis_type, result, error, ppc,
      prot_url, results, basic_raw, offline, loop_i, last, blocked_count,
      elapsed, issued, driver, struct_url, structure, fetches, exported>>

dom_vars ==
    <<soup, content_types, suggested_selectors, previous_selectors, spc>>

gui_vars == <<run, shared_driver, browsers, using>>

retry_vars == <<transport, answers, rpc>>

page_vars == <<page, received, cloudflare, captcha, cpc>>

metric_vars == <<metrics, performance, parsing_complexity, mpc>>

wrapper_vars ==
    <<max_attempts, delay, attempt, last_exception, history, sleeps, outcome,
      wpc>>

unit_vars == <<page_vars, metric_vars, wrapper_vars>>

aux_vars == <<dom_vars, gui_vars, retry_vars, unit_vars>>

vars == <<engine_vars, aux_vars>>

orch_vars ==
    <<analysis_count, opc, in_url, analysis_type, result, error, exported>>

struct_vars == <<struct_url, structure, fetches>>

Capabilities == {"fake_useragent", "cloudscraper", "selenium"}

ProbeNames ==
    {"basic_access", "user_agent", "rate_limiting", "cloudflare",
     "javascript", "captcha", "cookies", "bypass"}

\* marks an engine that analyze_website has not called
NotCalled == <<"-">>

(***************************************************************************)
(* HTTP.  A raw answer is the status the server gives, 0 when the exchange *)
(* fails below HTTP.  The outcome of a get is the status of the response   *)
(* the caller sees, 0 when the call raises.                                *)
(***************************************************************************)
RawStatuses == {200, 204, 403, 404, 429, 503}

status_forcelist == {429, 500, 502, 503, 504}

\* requests finds a connection adapter only for http:// and https:// urls
\* (leading whitespace is dropped first); for any other url get() raises
HasHttpScheme(url) ==
    \/ StartsWith(LStrip(url), HttpPrefix)
    \/ StartsWith(LStrip(url), HttpsPrefix)

RawAnswers(url) == IF HasHttpScheme(url) THEN RawStatuses \cup {0} ELSE {0}

\* the answers to a request that follows basic access: none when the target
\* has stopped answering
LaterAnswers(url) == IF offline THEN {0} ELSE RawAnswers(url)

\* driver.get raises when the page cannot be reached
Navigations == IF offline THEN {FALSE} ELSE BOOLEAN

\* self.session.get of ProtectionAnalyzer: the adapter mounted by
\* create_session retries the statuses of status_forcelist and raises when
\* the retries are used up, so such a status never reaches the caller
SessionGet(raw) == IF raw \in status_forcelist THEN 0 ELSE raw

\* requests.Session().get of a fresh session: no retry adapter
PlainGet(raw) == raw

(***************************************************************************)
(* ProtectionAnalyzer.analyze                                              *)
(***************************************************************************)
request_count == 10

\* the agents check_user_agent_protection tries, in order
user_agents ==
    <<"Mozilla/5.0 (Windows NT 10.0; Win64; x64) AppleWebKit/537.36",
      "Python-requests/2.25.1", "curl/7.68.0", "bot/1.0">>

UserAgentCount == Len(user_agents)

\* get_random_headers: the User-Agent is self.ua.random, or random.choice
\* of the built-in agents when fake_useragent did not import
get_random_headers ==
    [User_Agent |-> IF "fake_useragent" \in caps
                    THEN "self.ua.random" ELSE "random.choice(user_agents)"]

\* the headers of the User-Agent probe left as get_random_headers made them
ProbeHeaders_mut(ua) == get_random_headers

\* headers['User-Agent'] = ua on the dict of get_random_headers
ProbeHeaders(ua) == [get_random_headers EXCEPT !.User_Agent = ua]

\* the entry a probe loop appends to results, with the User-Agent header
\* the request went out with
Exchange(headers, status, blocked) ==
    [user_agent |-> headers.User_Agent, status_code |-> status,
     blocked |-> blocked]

NoExchange == [user_agent |-> "", status_code |-> 0, blocked |-> FALSE]

\* a finding scored as detected whatever the probe found
Finding_mut(name, detected, hi, lo) ==
    [name |-> name, detected |-> detected, score |-> hi]

\* the entry analyze stores under results['mechanisms'][name]
Finding(name, detected, hi, lo) ==
    [name |-> name, detected |-> detected,
     score |-> IF detected THEN hi ELSE lo]

RECURSIVE SumScores(_)
SumScores(ms) ==
    IF ms = <<>> THEN 0 ELSE Head(ms).score + SumScores(Tail(ms))

\* the level with the HIGH threshold misplaced
ComplexityLevel_mut(score) ==
    IF score >= 80 THEN "CRITICAL"
    ELSE IF score >= 70 THEN "HIGH"
    ELSE IF score >= 40 THEN "MEDIUM"
    ELSE "LOW"

ComplexityLevel(score) ==
    IF score >= 80 THEN "CRITICAL"
    ELSE IF score >= 60 THEN "HIGH"
    ELSE IF score >= 40 THEN "MEDIUM"
    ELSE "LOW"

NewReport(url) ==
    [url |-> url, mechanisms |-> <<>>, bypass_methods |-> <<>>,
     total_score |-> 0, complexity_level |-> "LOW"]

NoReport == NewReport(NotCalled)

\* a finding put in front of the ones recorded before
Record_mut(finding) ==
    [results EXCEPT !.mechanisms = <<finding>> \o @]

\* results['mechanisms'][name] = {...}: a dict keeps insertion order
Record(finding) ==
    [results EXCEPT !.mechanisms = Append(@, finding)]

Issue(probe) == issued \cup {probe}

\* check_basic_access taking every 2xx status as accessible
check_basic_access_2xx(raw) ==
    [status_code |-> SessionGet(raw),
     accessible |-> SessionGet(raw) \in 200..299,
     raises |-> FALSE]

\* check_basic_access without its except branch
check_basic_access_raising(raw) ==
    [status_code |-> SessionGet(raw),
     accessible |-> SessionGet(raw) = 200,
     raises |-> SessionGet(raw) = 0]

\* check_basic_access: the dict it returns for a raw answer.  The except
\* branch turns every exception of the get into a dict with status_code 0,
\* so the call itself never raises
check_basic_access(raw) ==
    [status_code |-> SessionGet(raw),
     accessible |-> SessionGet(raw) = 200,
     raises |-> FALSE]

\* the basic-access finding scored 0 in both cases
BasicAccessFinding_mut(accessible) ==
    Finding("basic_access", accessible, 0, 0)

\* the finding analyze records for basic access
BasicAccessFinding(accessible) == Finding("basic_access", accessible, 10, 0)

\* the short-circuit return without the forced score and level
ShortCircuited_mut(report) == report

\* lines 462-465: the report returned when basic access failed
ShortCircuited(report) ==
    [report EXCEPT !.total_score = 100, !.complexity_level = "CRITICAL"]

\* the first step of analyze: check_basic_access, its finding, and the
\* short-circuit return
CheckBasicAccess ==
    /\ ppc = "basic_access"
    /\ \E raw \in RawAnswers(prot_url) :
          LET basic_access == check_basic_access(raw)
              found == Record(BasicAccessFinding(basic_access.accessible))
          IN  /\ basic_raw' = raw
              /\ IF basic_access.raises
                 THEN /\ results' = results
                      /\ ppc' = "raised"
                 ELSE IF ~basic_access.accessible
                 THEN /\ results' = ShortCircuited(found)
                      /\ ppc' = "done"
                 ELSE /\ results' = found
                      /\ ppc' = "user_agent"
    /\ issued' = Issue("basic_access")
    /\ loop_i' = 0
    /\ last' = NoExchange
    /\ blocked_count' = 0
    /\ elapsed' = 0
    /\ UNCHANGED <<caps, orch_vars, prot_url, offline, driver, struct_vars>>
    /\ UNCHANGED aux_vars

\* one iteration of the loop of check_user_agent_protection
UserAgentRequest ==
    /\ ppc = "user_agent"
    /\ loop_i < UserAgentCount
    /\ \E raw \in LaterAnswers(prot_url) :
          LET status == SessionGet(raw)
              blocked == (status \in {403, 429, 503}) \/ status = 0
          IN  /\ blocked_count' = blocked_count + (IF blocked THEN 1 ELSE 0)
              /\ last' = Exchange(ProbeHeaders(user_agents[loop_i + 1]),
                                  status, blocked)
    /\ loop_i' = loop_i + 1
    /\ issued' = Issue("user_agent")
    /\ UNCHANGED <<caps, orch_vars, ppc, prot_url, basic_raw, offline, results, elapsed, driver,
                   struct_vars>>
    /\ UNCHANGED aux_vars

\* the end of check_user_agent_protection and the finding analyze records
UserAgentRecord ==
    /\ ppc = "user_agent"
    /\ loop_i = UserAgentCount
    /\ results' = Record(Finding("user_agent", blocked_count > 0, 20, 5))
    /\ ppc' = "rate_limiting"
    /\ loop_i' = 0
    /\ last' = NoExchange
    /\ blocked_count' = 0
    /\ elapsed' = 0
    /\ UNCHANGED <<caps, orch_vars, prot_url, basic_raw, offline, issued, driver, struct_vars>>
    /\ UNCHANGED aux_vars

\* one iteration of the loop of check_rate_limiting.  took is the number of
\* clock ticks of time.time() the exchange lasted (0: less than one tick);
\* an answered request that is not the last one is followed by sleep(delay)
RateLimitRequest ==
    /\ ppc = "rate_limiting"
    /\ loop_i < request_count
    /\ \E raw \in LaterAnswers(prot_url), took \in {0, 1} :
          LET status == SessionGet(raw)
              blocked == (status \in {429, 503}) \/ status = 0
              slept == IF status # 0 /\ loop_i < request_count - 1
                       THEN 1 ELSE 0
          IN  /\ blocked_count' = blocked_count + (IF blocked THEN 1 ELSE 0)
              /\ elapsed' = IF elapsed + took + slept > 0 THEN 1 ELSE 0
              /\ last' = Exchange(get_random_headers, status, blocked)
    /\ loop_i' = loop_i + 1
    /\ issued' = Issue("rate_limiting")
    /\ UNCHANGED <<caps, orch_vars, ppc, prot_url, basic_raw, offline, results, driver,
                   struct_vars>>
    /\ UNCHANGED aux_vars

\* the end of check_rate_limiting: request_count / total_time is computed
\* outside the try blocks and raises ZeroDivisionError when the clock has
\* not advanced; otherwise analyze records the finding
RateLimitRecord ==
    /\ ppc = "rate_limiting"
    /\ loop_i = request_count
    /\ IF elapsed = 0
       THEN /\ ppc' = "raised"
            /\ results' = results
       ELSE /\ ppc' = "cloudflare"
            /\ results' =
                  Record(Finding("rate_limiting", blocked_count > 0, 15, 5))
    /\ loop_i' = 0
    /\ last' = NoExchange
    /\ blocked_count' = 0
    /\ elapsed' = 0
    /\ UNCHANGED <<caps, orch_vars, prot_url, basic_raw, offline, issued, driver, struct_vars>>
    /\ UNCHANGED aux_vars

\* check_cloudflare_protection: indicators is any(cf_indicators) of the
\* response; a request that raises gives detected False
CheckCloudflare ==
    /\ ppc = "cloudflare"
    /\ \E raw \in LaterAnswers(prot_url), indicators \in BOOLEAN :
          LET status == SessionGet(raw)
              detected == status # 0 /\ indicators
          IN  results' = Record(Finding("cloudflare", detected, 25, 0))
    /\ issued' = Issue("cloudflare")
    /\ ppc' = "javascript"
    /\ UNCHANGED <<caps, orch_vars, prot_url, basic_raw, offline, loop_i, last, blocked_count, elapsed,
                   driver, struct_vars>>
    /\ UNCHANGED aux_vars

\* check_javascript_protection.  With selenium the driver is created when
\* self.driver is None (created = FALSE: uc.Chrome raised), then
\* driver.get runs (loaded = FALSE: it raised); differs is difference > 0.3,
\* or sum(js_indicators) >= 2 without selenium
CheckJavascript ==
    /\ ppc = "javascript"
    /\ \E raw \in LaterAnswers(prot_url), created \in BOOLEAN,
          loaded \in Navigations, differs \in BOOLEAN :
          LET status == SessionGet(raw)
              usesDriver == status # 0 /\ "selenium" \in caps
              hasDriver == driver = "created" \/ created
              js_required ==
                 /\ status # 0
                 /\ usesDriver => (hasDriver /\ loaded)
                 /\ differs
          IN  /\ results' = Record(Finding("javascript", js_required, 30, 10))
              /\ driver' = IF usesDriver /\ hasDriver
                           THEN "created" ELSE driver
    /\ issued' = Issue("javascript")
    /\ ppc' = "captcha"
    /\ UNCHANGED <<caps, orch_vars, prot_url, basic_raw, offline, loop_i, last, blocked_count, elapsed,
                   struct_vars>>
    /\ UNCHANGED aux_vars

\* check_captcha_protection: indicators is any(captcha_indicators)
CheckCaptcha ==
    /\ ppc = "captcha"
    /\ \E raw \in LaterAnswers(prot_url), indicators \in BOOLEAN :
          LET status == SessionGet(raw)
              detected == status # 0 /\ indicators
          IN  results' = Record(Finding("captcha", detected, 40, 0))
    /\ issued' = Issue("captcha")
    /\ ppc' = "cookies"
    /\ UNCHANGED <<caps, orch_vars, prot_url, basic_raw, offline, loop_i, last, blocked_count, elapsed,
                   driver, struct_vars>>
    /\ UNCHANGED aux_vars

\* check_cookie_requirements: a get on self.session, then a get on a fresh
\* session whose cookie jar is counted (has_cookies: cookies_count > 0)
CheckCookies ==
    /\ ppc = "cookies"
    /\ \E raw1 \in LaterAnswers(prot_url), raw2 \in LaterAnswers(prot_url),
          has_cookies \in BOOLEAN :
          LET first == SessionGet(raw1)
              second == PlainGet(raw2)
              cookies_used == first # 0 /\ second # 0 /\ has_cookies
          IN  results' = Record(Finding("cookies", cookies_used, 10, 5))
    /\ issued' = Issue("cookies")
    /\ ppc' = "bypass"
    /\ UNCHANGED <<caps, orch_vars, prot_url, basic_raw, offline, loop_i, last, blocked_count, elapsed,
                   driver, struct_vars>>
    /\ UNCHANGED aux_vars


\* what a bypass attempt can report as 'success': status_code == 200 of a
\* get on self.session, or of a get on a session without the retry adapter
SessionSuccess(url) == {SessionGet(raw) = 200 : raw \in LaterAnswers(url)}

PlainSuccess(url) == {PlainGet(raw) = 200 : raw \in LaterAnswers(url)}

Method(name, success) == [name |-> name, success |-> success]

\* the methods dict test_bypass_methods builds, in insertion order; a method
\* whose module did not import is left out
BypassMethods(s1, s2, s3, s4, s5) ==
    <<Method("requests", s1), Method("requests_session", s2)>>
    \o (IF "fake_useragent" \in caps
        THEN <<Method("fake_useragent", s3)>> ELSE <<>>)
    \o (IF "cloudscraper" \in caps
        THEN <<Method("cloudscraper", s4)>> ELSE <<>>)
    \o (IF "selenium" \in caps
        THEN <<Method("undetected_chrome", s5)>> ELSE <<>>)

IsSuccess(m) == m.success

\* successful_methods of analyze
Successful(methods) == SelectSeq(methods, IsSuccess)

\* the last successful method instead of the first
BestMethod_mut(methods) ==
    IF Successful(methods) # <<>>
    THEN Successful(methods)[Len(Successful(methods))].name
    ELSE "selenium"

\* lines 534-544: successful_methods[0], or the placeholder 'selenium'
BestMethod(methods) ==
    IF Successful(methods) # <<>> THEN Successful(methods)[1].name
    ELSE "selenium"

\* len(successful_methods) / len(bypass_methods) * 100 as the fraction
\* num / den; the else branch assigns the integer 0
BypassSuccessRate(methods) ==
    IF Successful(methods) # <<>>
    THEN [num |-> Len(Successful(methods)) * 100, den |-> Len(methods)]
    ELSE [num |-> 0, den |-> 1]

\* the score summed over the probes after basic access only
Scored_mut(report, methods) ==
    [url |-> report.url,
     mechanisms |-> report.mechanisms,
     bypass_methods |-> methods,
     total_score |-> SumScores(Tail(report.mechanisms)),
     complexity_level |->
        ComplexityLevel(SumScores(Tail(report.mechanisms))),
     best_method |-> BestMethod(methods),
     bypass_success_rate |-> BypassSuccessRate(methods)]

\* lines 518-546 of analyze: the score, the level, the best method
Scored(report, methods) ==
    [url |-> report.url,
     mechanisms |-> report.mechanisms,
     bypass_methods |-> methods,
     total_score |-> SumScores(report.mechanisms),
     complexity_level |-> ComplexityLevel(SumScores(report.mechanisms)),
     best_method |-> BestMethod(methods),
     bypass_success_rate |-> BypassSuccessRate(methods)]

\* test_bypass_methods and the rest of analyze.  created / loaded are the
\* driver creation and driver.get of the undetected_chrome attempt, clean
\* is 'error' not in page_source
BypassAndScore ==
    /\ ppc = "bypass"
    /\ \E s1 \in SessionSuccess(prot_url), s2 \in PlainSuccess(prot_url),
          s3 \in SessionSuccess(prot_url), s4 \in PlainSuccess(prot_url),
          created \in BOOLEAN, loaded \in Navigations, clean \in BOOLEAN :
          LET usesDriver == "selenium" \in caps
              hasDriver == driver = "created" \/ created
              s5 == hasDriver /\ loaded /\ clean
              methods == BypassMethods(s1, s2, s3, s4, s5)
          IN  /\ results' = Scored(results, methods)
              /\ driver' = IF usesDriver /\ hasDriver
                           THEN "created" ELSE driver
    /\ issued' = Issue("bypass")
    /\ ppc' = "done"
    /\ UNCHANGED <<caps, orch_vars, prot_url, basic_raw, offline, loop_i, last, blocked_count, elapsed,
                   struct_vars>>
    /\ UNCHANGED aux_vars

(***************************************************************************)
(* StructureAnalyzer.analyze, as far as its caller sees it.                *)
(***************************************************************************)
StructureErrorKeys ==
    {"url", "timestamp", "analysis_type", "error", "success"}

StructureReportKeys ==
    {"url", "timestamp", "analysis_type", "title", "meta_description",
     "language", "charset", "total_elements", "unique_tags",
     "tag_distribution", "classes_count", "ids_count", "popular_classes",
     "max_nesting_depth", "has_semantic_html5", "semantic_tags_found",
     "content_types", "internal_links", "external_links", "forms",
     "internal_links_count", "external_links_count", "forms_count",
     "scripts", "styles", "frameworks_detected", "suggested_selectors",
     "performance", "parsing_complexity"}

\* get_page_content: a get on the plain session followed by
\* raise_for_status; TRUE when a page came back
PageFetched(raw) == PlainGet(raw) # 0 /\ PlainGet(raw) < 400

\* the dict analyze returns: the except branch adds 'error' and 'success'
\* to the three keys set before the try and returns it
StructureResult(url, fetched, products) ==
    IF fetched
    THEN [url |-> url, keys |-> StructureReportKeys, products |-> products]
    ELSE [url |-> url, keys |-> StructureErrorKeys, products |-> FALSE]

NoStructure == [url |-> NotCalled, keys |-> {}, products |-> FALSE]

(***************************************************************************)
(* The parsed document and its classification.  An element is its tag      *)
(* name, the tokens of its class attribute and its id (<<>>: the attribute *)
(* is absent); a document is the sequence of its elements, and the         *)
(* position of an element is its identity.  The attribute values drawn are *)
(* lower case, so the re.I flag of the keyword search changes nothing.     *)
(***************************************************************************)
Element(name, class, id) == [name |-> name, class |-> class, id |-> id]

Elements ==
    {Element("article", <<>>, <<>>),
     Element("article", <<<<"p", "o", "s", "t">>>>, <<>>),
     Element("div", <<<<"p", "r", "o", "d", "u", "c", "t">>,
                      <<"i", "t", "e", "m">>>>, <<>>),
     Element("div", <<<<"c", "a", "r", "d">>>>, <<>>),
     Element("ul", <<<<"m", "e", "n", "u">>>>, <<>>),
     Element("form", <<>>, <<"s", "e", "a", "r", "c", "h">>)}

Documents == UNION {[1..n -> Elements] : n \in 0..MaxNodes}

\* ' '.join(tokens)
RECURSIVE Join(_)
Join(tokens) ==
    IF tokens = <<>> THEN <<>>
    ELSE IF Len(tokens) = 1 THEN tokens[1]
    ELSE tokens[1] \o <<" ">> \o Join(Tail(tokens))

\* w in s
Contains(s, w) ==
    \E i \in 0..(Len(s) - Len(w)) : SubSeq(s, i + 1, i + Len(w)) = w

HasAttr(el, attr) ==
    \/ attr = "class" /\ el.class # <<>>
    \/ attr = "id" /\ el.id # <<>>

\* the value of an attribute as one string
AttrText(el, attr) ==
    IF attr = "class" THEN Join(el.class)
    ELSE IF attr = "id" THEN el.id
    ELSE <<>>

\* one compound selector: a tag name ("*": any) and at most one attribute
\* test: [attr], [attr*="val"], [attr="val"], or .val on the class tokens
Simple(tag, attr, op, val) ==
    [tag |-> tag, attr |-> attr, op |-> op, val |-> val]

\* a selector as written and its comma-separated alternatives
Sel(text, alts) == [text |-> text, alts |-> alts]

SimpleMatches(el, simple) ==
    /\ simple.tag \in {"*", el.name}
    /\ CASE simple.op = "-" -> TRUE
         [] simple.op = "has" -> HasAttr(el, simple.attr)
         [] simple.op = "*=" ->
               /\ HasAttr(el, simple.attr)
               /\ Contains(AttrText(el, simple.attr), simple.val)
         [] simple.op = "=" ->
               /\ HasAttr(el, simple.attr)
               /\ AttrText(el, simple.attr) = simple.val
         [] simple.op = "~=" ->
               /\ simple.attr = "class"
               /\ \E k \in 1..Len(el.class) : el.class[k] = simple.val

\* soup.select(selector): the positions of the elements it returns
select(doc, selector) ==
    {i \in 1..Len(doc) :
        \E k \in 1..Len(selector.alts) :
           SimpleMatches(doc[i], selector.alts[k])}

\* soup.find_all(attrs={attr: re.compile(keyword, re.I)}): the elements
\* that have the attribute with the keyword somewhere in its value
find_all(doc, attr, keyword) ==
    {i \in 1..Len(doc) :
        HasAttr(doc[i], attr) /\ Contains(AttrText(doc[i], attr), keyword)}

\* patterns of detect_content_types (lines 161-213), in the order of the
\* dict; a letter outside ASCII is written as its code point
patterns ==
    <<
      [content_type |-> "products",
       selectors |-> <<
          Sel("[class*=product]", <<Simple("*", "class", "*=", <<"p", "r", "o", "d", "u", "c", "t">>)>>),
          Sel("[class*=item]", <<Simple("*", "class", "*=", <<"i", "t", "e", "m">>)>>),
          Sel("[class*=card]", <<Simple("*", "class", "*=", <<"c", "a", "r", "d">>)>>),
          Sel("[data-product]", <<Simple("*", "data-product", "has", <<>>)>>),
          Sel("[data-item]", <<Simple("*", "data-item", "has", <<>>)>>),
          Sel("[itemtype*=Product]", <<Simple("*", "itemtype", "*=", <<"P", "r", "o", "d", "u", "c", "t">>)>>),
          Sel("[class*=goods]", <<Simple("*", "class", "*=", <<"g", "o", "o", "d", "s">>)>>),
          Sel("[class*=catalog]", <<Simple("*", "class", "*=", <<"c", "a", "t", "a", "l", "o", "g">>)>>)>>,
       keywords |-> <<
          <<"p", "r", "i", "c", "e">>,
          <<"b", "u", "y">>,
          <<"c", "a", "r", "t">>,
          <<"p", "r", "o", "d", "u", "c", "t">>,
          <<"i", "t", "e", "m">>,
          <<"u0442", "u043e", "u0432", "u0430", "u0440">>,
          <<"u0446", "u0435", "u043d", "u0430">>>>],
      [content_type |-> "articles",
       selectors |-> <<
          Sel("article", <<Simple("article", "-", "-", <<>>)>>),
          Sel("[class*=article]", <<Simple("*", "class", "*=", <<"a", "r", "t", "i", "c", "l", "e">>)>>),
          Sel("[class*=post]", <<Simple("*", "class", "*=", <<"p", "o", "s", "t">>)>>),
          Sel("[class*=news]", <<Simple("*", "class", "*=", <<"n", "e", "w", "s">>)>>),
          Sel("[class*=blog]", <<Simple("*", "class", "*=", <<"b", "l", "o", "g">>)>>),
          Sel("[class*=content]", <<Simple("*", "class", "*=", <<"c", "o", "n", "t", "e", "n", "t">>)>>)>>,
       keywords |-> <<
          <<"r", "e", "a", "d">>,
          <<"a", "r", "t", "i", "c", "l", "e">>,
          <<"p", "o", "s", "t">>,
          <<"n", "e", "w", "s">>,
          <<"b", "l", "o", "g">>,
          <<"u0441", "u0442", "u0430", "u0442", "u044c", "u044f">>,
          <<"u043d", "u043e", "u0432", "u043e", "u0441", "u0442", "u0438">>>>],
      [content_type |-> "navigation",
       selectors |-> <<
          Sel("nav", <<Simple("nav", "-", "-", <<>>)>>),
          Sel("[class*=nav]", <<Simple("*", "class", "*=", <<"n", "a", "v">>)>>),
          Sel("[class*=menu]", <<Simple("*", "class", "*=", <<"m", "e", "n", "u">>)>>),
          Sel("[class*=breadcrumb]", <<Simple("*", "class", "*=", <<"b", "r", "e", "a", "d", "c", "r", "u", "m", "b">>)>>),
          Sel("[role=navigation]", <<Simple("*", "role", "=", <<"n", "a", "v", "i", "g", "a", "t", "i", "o", "n">>)>>),
          Sel("ul.menu", <<Simple("ul", "class", "~=", <<"m", "e", "n", "u">>)>>),
          Sel("ul.nav", <<Simple("ul", "class", "~=", <<"n", "a", "v">>)>>)>>,
       keywords |-> <<
          <<"m", "e", "n", "u">>,
          <<"n", "a", "v", "i", "g", "a", "t", "i", "o", "n">>,
          <<"n", "a", "v">>,
          <<"b", "r", "e", "a", "d", "c", "r", "u", "m", "b">>,
          <<"u043c", "u0435", "u043d", "u044e">>,
          <<"u043d", "u0430", "u0432", "u0438", "u0433", "u0430", "u0446", "u0438", "u044f">>>>],
      [content_type |-> "forms",
       selectors |-> <<
          Sel("form", <<Simple("form", "-", "-", <<>>)>>),
          Sel("[class*=form]", <<Simple("*", "class", "*=", <<"f", "o", "r", "m">>)>>),
          Sel("[class*=search]", <<Simple("*", "class", "*=", <<"s", "e", "a", "r", "c", "h">>)>>),
          Sel("[class*=contact]", <<Simple("*", "class", "*=", <<"c", "o", "n", "t", "a", "c", "t">>)>>),
          Sel("[class*=subscribe]", <<Simple("*", "class", "*=", <<"s", "u", "b", "s", "c", "r", "i", "b", "e">>)>>),
          Sel("input", <<Simple("input", "-", "-", <<>>)>>),
          Sel("textarea", <<Simple("textarea", "-", "-", <<>>)>>)>>,
       keywords |-> <<
          <<"f", "o", "r", "m">>,
          <<"s", "e", "a", "r", "c", "h">>,
          <<"c", "o", "n", "t", "a", "c", "t">>,
          <<"s", "u", "b", "s", "c", "r", "i", "b", "e">>,
          <<"l", "o", "g", "i", "n">>,
          <<"u0444", "u043e", "u0440", "u043c", "u0430">>,
          <<"u043f", "u043e", "u0438", "u0441", "u043a">>>>],
      [content_type |-> "lists",
       selectors |-> <<
          Sel("[class*=list]", <<Simple("*", "class", "*=", <<"l", "i", "s", "t">>)>>),
          Sel("[class*=grid]", <<Simple("*", "class", "*=", <<"g", "r", "i", "d">>)>>),
          Sel("[class*=catalog]", <<Simple("*", "class", "*=", <<"c", "a", "t", "a", "l", "o", "g">>)>>),
          Sel("ul", <<Simple("ul", "-", "-", <<>>)>>),
          Sel("ol", <<Simple("ol", "-", "-", <<>>)>>),
          Sel("[class*=items]", <<Simple("*", "class", "*=", <<"i", "t", "e", "m", "s">>)>>),
          Sel("table", <<Simple("table", "-", "-", <<>>)>>)>>,
       keywords |-> <<
          <<"l", "i", "s", "t">>,
          <<"g", "r", "i", "d">>,
          <<"c", "a", "t", "a", "l", "o", "g">>,
          <<"i", "t", "e", "m", "s">>,
          <<"c", "o", "l", "l", "e", "c", "t", "i", "o", "n">>,
          <<"u0441", "u043f", "u0438", "u0441", "u043e", "u043a">>,
          <<"u043a", "u0430", "u0442", "u0430", "u043b", "u043e", "u0433">>>>],
      [content_type |-> "media",
       selectors |-> <<
          Sel("img", <<Simple("img", "-", "-", <<>>)>>),
          Sel("video", <<Simple("video", "-", "-", <<>>)>>),
          Sel("audio", <<Simple("audio", "-", "-", <<>>)>>),
          Sel("[class*=image]", <<Simple("*", "class", "*=", <<"i", "m", "a", "g", "e">>)>>),
          Sel("[class*=photo]", <<Simple("*", "class", "*=", <<"p", "h", "o", "t", "o">>)>>),
          Sel("[class*=gallery]", <<Simple("*", "class", "*=", <<"g", "a", "l", "l", "e", "r", "y">>)>>),
          Sel("picture", <<Simple("picture", "-", "-", <<>>)>>)>>,
       keywords |-> <<
          <<"i", "m", "a", "g", "e">>,
          <<"p", "h", "o", "t", "o">>,
          <<"g", "a", "l", "l", "e", "r", "y">>,
          <<"v", "i", "d", "e", "o">>,
          <<"m", "e", "d", "i", "a">>,
          <<"u0438", "u0437", "u043e", "u0431", "u0440", "u0430", "u0436", "u0435", "u043d", "u0438", "u0435">>,
          <<"u0444", "u043e", "u0442", "u043e">>>>],
      [content_type |-> "text_content",
       selectors |-> <<
          Sel("p", <<Simple("p", "-", "-", <<>>)>>),
          Sel("div", <<Simple("div", "-", "-", <<>>)>>),
          Sel("span", <<Simple("span", "-", "-", <<>>)>>),
          Sel("[class*=text]", <<Simple("*", "class", "*=", <<"t", "e", "x", "t">>)>>),
          Sel("[class*=description]", <<Simple("*", "class", "*=", <<"d", "e", "s", "c", "r", "i", "p", "t", "i", "o", "n">>)>>),
          Sel("[class*=content]", <<Simple("*", "class", "*=", <<"c", "o", "n", "t", "e", "n", "t">>)>>)>>,
       keywords |-> <<
          <<"t", "e", "x", "t">>,
          <<"d", "e", "s", "c", "r", "i", "p", "t", "i", "o", "n">>,
          <<"c", "o", "n", "t", "e", "n", "t">>,
          <<"p", "a", "r", "a", "g", "r", "a", "p", "h">>,
          <<"u0442", "u0435", "u043a", "u0441", "u0442">>,
          <<"u043e", "u043f", "u0438", "u0441", "u0430", "u043d", "u0438", "u0435">>>>]
    >>

\* content_patterns of generate_selectors (lines 359-365)
content_patterns ==
    <<
      [content_type |-> "products",
       patterns |-> <<
          Sel("[class*=product]", <<Simple("*", "class", "*=", <<"p", "r", "o", "d", "u", "c", "t">>)>>),
          Sel("[class*=item]", <<Simple("*", "class", "*=", <<"i", "t", "e", "m">>)>>),
          Sel("[class*=card]", <<Simple("*", "class", "*=", <<"c", "a", "r", "d">>)>>)>>],
      [content_type |-> "articles",
       patterns |-> <<
          Sel("article", <<Simple("article", "-", "-", <<>>)>>),
          Sel("[class*=article]", <<Simple("*", "class", "*=", <<"a", "r", "t", "i", "c", "l", "e">>)>>),
          Sel("[class*=post]", <<Simple("*", "class", "*=", <<"p", "o", "s", "t">>)>>)>>],
      [content_type |-> "navigation",
       patterns |-> <<
          Sel("nav", <<Simple("nav", "-", "-", <<>>)>>),
          Sel("[class*=menu]", <<Simple("*", "class", "*=", <<"m", "e", "n", "u">>)>>),
          Sel("[class*=nav]", <<Simple("*", "class", "*=", <<"n", "a", "v">>)>>)>>],
      [content_type |-> "forms",
       patterns |-> <<
          Sel("form", <<Simple("form", "-", "-", <<>>)>>),
          Sel("[class*=form]", <<Simple("*", "class", "*=", <<"f", "o", "r", "m">>)>>)>>],
      [content_type |-> "lists",
       patterns |-> <<
          Sel("ul", <<Simple("ul", "-", "-", <<>>)>>),
          Sel("ol", <<Simple("ol", "-", "-", <<>>)>>),
          Sel("[class*=list]", <<Simple("*", "class", "*=", <<"l", "i", "s", "t">>)>>)>>]
    >>

\* common_selectors of generate_selectors (lines 386-395)
common_selectors ==
    <<
      [name |-> "common_all_links",
       selector |->
          Sel("a[href]", <<Simple("a", "href", "has", <<>>)>>)],
      [name |-> "common_all_images",
       selector |->
          Sel("img[src]", <<Simple("img", "src", "has", <<>>)>>)],
      [name |-> "common_all_forms",
       selector |->
          Sel("form", <<Simple("form", "-", "-", <<>>)>>)],
      [name |-> "common_all_inputs",
       selector |->
          Sel("input, textarea, select", <<Simple("input", "-", "-", <<>>), Simple("textarea", "-", "-", <<>>), Simple("select", "-", "-", <<>>)>>)],
      [name |-> "common_headings",
       selector |->
          Sel("h1, h2, h3, h4, h5, h6", <<Simple("h1", "-", "-", <<>>), Simple("h2", "-", "-", <<>>), Simple("h3", "-", "-", <<>>), Simple("h4", "-", "-", <<>>), Simple("h5", "-", "-", <<>>), Simple("h6", "-", "-", <<>>)>>)],
      [name |-> "common_paragraphs",
       selector |->
          Sel("p", <<Simple("p", "-", "-", <<>>)>>)],
      [name |-> "common_lists",
       selector |->
          Sel("ul, ol", <<Simple("ul", "-", "-", <<>>), Simple("ol", "-", "-", <<>>)>>)],
      [name |-> "common_tables",
       selector |->
          Sel("table", <<Simple("table", "-", "-", <<>>)>>)]
    >>

\* the positions matched by a selector or a keyword of one category
Matched(doc, config) ==
    UNION {select(doc, config.selectors[k]) :
              k \in 1..Len(config.selectors)}
    \cup UNION {find_all(doc, "class", config.keywords[k])
                \cup find_all(doc, "id", config.keywords[k]) :
                   k \in 1..Len(config.keywords)}

\* elements_found: a Python set of bs4 Tag objects.  Tag.__eq__ compares
\* name, attributes and contents and Tag.__hash__ is that of the markup,
\* so the set holds one member per distinct markup
elements_found(doc, config) == {doc[i] : i \in Matched(doc, config)}

detect_content_types(doc) ==
    [ct \in {patterns[k].content_type : k \in 1..Len(patterns)} |->
        LET config == patterns[CHOOSE k \in 1..Len(patterns) :
                                  patterns[k].content_type = ct]
        IN  Cardinality(elements_found(doc, config))]

\* the dict appended for a pattern; elements is a list, so count is the
\* number of elements matched
Candidate(doc, pattern) ==
    [selector |-> pattern.text,
     count |-> Cardinality(select(doc, pattern))]

HasElements(candidate) == candidate.count > 0

\* type_selectors: the candidates of the patterns that matched, in the
\* order of the patterns
type_selectors(doc, pats) ==
    SelectSeq([k \in 1..Len(pats) |-> Candidate(doc, pats[k])],
              HasElements)

\* the insertion that puts a candidate before the ones of equal count
InsertByCount_mut(done, c) ==
    LET idx == Cardinality({i \in 1..Len(done) : done[i].count > c.count})
    IN  SubSeq(done, 1, idx) \o <<c>> \o SubSeq(done, idx + 1, Len(done))

\* one step of the stable ordering: c goes after every candidate whose
\* count is not smaller
InsertByCount(done, c) ==
    LET idx == Cardinality({i \in 1..Len(done) : done[i].count >= c.count})
    IN  SubSeq(done, 1, idx) \o <<c>> \o SubSeq(done, idx + 1, Len(done))

\* sorted(type_selectors, key=lambda x: x['count'], reverse=True): Python's
\* sort is stable, with reverse=True as well
RECURSIVE sorted(_)
sorted(candidates) ==
    IF candidates = <<>> THEN <<>>
    ELSE InsertByCount(sorted(SubSeq(candidates, 1, Len(candidates) - 1)),
                       candidates[Len(candidates)])

\* generate_selectors: a key for each category with a non-empty
\* type_selectors and for each common selector that matched
generate_selectors(doc) ==
    LET cats == {k \in 1..Len(content_patterns) :
                    type_selectors(doc, content_patterns[k].patterns)
                       # <<>>}
        commons == {k \in 1..Len(common_selectors) :
                       select(doc, common_selectors[k].selector) # {}}
        keys == {content_patterns[k].content_type : k \in cats}
                \cup {common_selectors[k].name : k \in commons}
    IN  [key \in keys |->
            IF \E k \in cats : content_patterns[k].content_type = key
            THEN LET k == CHOOSE k \in cats :
                             content_patterns[k].content_type = key
                 IN  sorted(type_selectors(doc,
                                           content_patterns[k].patterns))
            ELSE LET k == CHOOSE k \in commons :
                             common_selectors[k].name = key
                 IN  <<Candidate(doc, common_selectors[k].selector)>>]

NoSelectors == [key \in {} |-> <<>>]

NoTally == [ct \in {} |-> 0]

\* StructureAnalyzer.analyze, lines 469-470
DetectContentTypes ==
    /\ spc = "parsed"
    /\ content_types' = detect_content_types(soup)
    /\ spc' = "typed"
    /\ UNCHANGED <<soup, suggested_selectors, previous_selectors>>
    /\ UNCHANGED <<engine_vars, gui_vars, retry_vars, unit_vars>>

\* StructureAnalyzer.analyze, lines 483-484
GenerateSelectors ==
    /\ spc = "typed"
    /\ suggested_selectors' = generate_selectors(soup)
    /\ spc' = "done"
    /\ UNCHANGED <<soup, content_types, previous_selectors>>
    /\ UNCHANGED <<engine_vars, gui_vars, retry_vars, unit_vars>>

\* analyze is called again for a page that has not changed
Reanalyze ==
    /\ spc = "done"
    /\ previous_selectors' = <<suggested_selectors>>
    /\ content_types' = NoTally
    /\ suggested_selectors' = NoSelectors
    /\ spc' = "parsed"
    /\ UNCHANGED soup
    /\ UNCHANGED <<engine_vars, gui_vars, retry_vars, unit_vars>>

(***************************************************************************)
(* ComprehensiveWebsiteAnalyzer.analyze_website                            *)
(***************************************************************************)
NoResult == [url |-> NotCalled]

\* no file has been written
NotExported == [t |-> "none"]

\* the url analyze_website passes to both engines and stores in results
EngineUrl(url) == url

\* protection.get('complexity_score', 0)
ComplexityScoreOf(res) ==
    IF "protection" \in DOMAIN res
       /\ "complexity_score" \in DOMAIN res.protection
    THEN res.protection.complexity_score
    ELSE 0

Band(score) ==
    IF score < 40 THEN "LOW"
    ELSE IF score < 60 THEN "MEDIUM"
    ELSE IF score < 80 THEN "HIGH"
    ELSE "CRITICAL"

\* _translate_protection_results: a copy with the localized keys added
TranslateProtection(report) ==
    report @@ [complexity_level_localized |-> report.complexity_level]

\* _generate_recommendations: the branch taken for the protection part and
\* the note added for detected products
Recommendations(res) ==
    (IF "protection" \in DOMAIN res
     THEN <<Band(ComplexityScoreOf(res))>> ELSE <<>>)
    \o (IF "structure" \in DOMAIN res /\ res.structure.products
        THEN <<"products">> ELSE <<>>)

\* _generate_summary
Summary(res) ==
    [url |-> res.url, scraping_difficulty |-> Band(ComplexityScoreOf(res))]

\* lines 92-99: recommendations and summary are added to results
Finished(res) ==
    res @@ [recommendations |-> Recommendations(res),
            summary |-> Summary(res)]

\* the call of analyze_website up to the first engine: validate_url raises
\* ValueError for an input it rejects, otherwise results is started and the
\* first engine of analysis_type is entered
AnalyzeWebsite ==
    /\ opc \in {"idle", "returned", "raised"}
    /\ analysis_count < MaxAnalyses
    /\ \E url \in UrlInputs, type \in AnalysisTypes :
          /\ in_url' = url
          /\ analysis_type' = type
          /\ IF ~validate_url(url).ok
             THEN /\ opc' = "raised"
                  /\ error' = "ValueError"
                  /\ result' = NoResult
                  /\ ppc' = ppc
                  /\ prot_url' = NotCalled
                  /\ results' = NoReport
             ELSE /\ error' = "none"
                  /\ result' = [url |-> EngineUrl(url),
                                analysis_type |-> type]
                  /\ IF type \in {"protection", "both"}
                     THEN /\ opc' = "protection"
                          /\ ppc' = "basic_access"
                          /\ prot_url' = EngineUrl(url)
                          /\ results' = NewReport(EngineUrl(url))
                     ELSE /\ opc' = "structure"
                          /\ ppc' = ppc
                          /\ prot_url' = NotCalled
                          /\ results' = NoReport
    /\ issued' = {}
    /\ basic_raw' = 0
    /\ offline' \in (IF opc' = "protection" THEN BOOLEAN ELSE {FALSE})
    /\ struct_url' = NotCalled
    /\ structure' = NoStructure
    /\ fetches' = 0
    /\ UNCHANGED <<caps, analysis_count, loop_i, last, blocked_count, elapsed,
                   driver>>
    /\ exported' = NotExported
    /\ UNCHANGED aux_vars

\* ProtectionAnalyzer.analyze returned: its report is stored (translated);
\* with analysis_type "protection" the call finishes here
ProtectionReturn ==
    /\ opc = "protection"
    /\ ppc = "done"
    /\ LET res == result @@ [protection |-> TranslateProtection(results)]
       IN  IF analysis_type = "both"
           THEN /\ result' = res
                /\ opc' = "structure"
                /\ analysis_count' = analysis_count
           ELSE /\ result' = Finished(res)
                /\ opc' = "returned"
                /\ analysis_count' = analysis_count + 1
    /\ ppc' = "idle"
    /\ results' = NoReport
    /\ UNCHANGED <<caps, in_url, analysis_type, error, prot_url, basic_raw, offline, loop_i, last,
                   blocked_count, elapsed, issued, driver, struct_vars>>
    /\ UNCHANGED exported
    /\ UNCHANGED aux_vars

\* the except branch counting the failed call as an analysis
ProtectionRaised_mut ==
    /\ opc = "protection"
    /\ ppc = "raised"
    /\ opc' = "raised"
    /\ error' = "Exception"
    /\ result' = NoResult
    /\ ppc' = "idle"
    /\ results' = NoReport
    /\ analysis_count' = analysis_count + 1
    /\ UNCHANGED <<caps, in_url, analysis_type, prot_url, basic_raw, offline,
                   loop_i, last, blocked_count, elapsed, issued, driver,
                   struct_vars>>
    /\ UNCHANGED exported
    /\ UNCHANGED aux_vars

\* ProtectionAnalyzer.analyze raised: the except branch of analyze_website
\* raises Exception(error_msg)
ProtectionRaised ==
    /\ opc = "protection"
    /\ ppc = "raised"
    /\ opc' = "raised"
    /\ error' = "Exception"
    /\ result' = NoResult
    /\ ppc' = "idle"
    /\ results' = NoReport
    /\ UNCHANGED <<caps, analysis_count, in_url, analysis_type, prot_url, basic_raw, offline,
                   loop_i, last, blocked_count, elapsed, issued, driver,
                   struct_vars>>
    /\ UNCHANGED exported
    /\ UNCHANGED aux_vars

\* StructureAnalyzer.analyze and the rest of analyze_website: analyze
\* catches every exception itself, so the call always finishes
StructureAnalyze ==
    /\ opc = "structure"
    /\ \E raw \in LaterAnswers(EngineUrl(in_url)), products \in BOOLEAN :
          LET report == StructureResult(EngineUrl(in_url), PageFetched(raw),
                                        products)
          IN  /\ structure' = report
              /\ result' = Finished(result @@ [structure |-> report])
    /\ struct_url' = EngineUrl(in_url)
    /\ fetches' = fetches + 1
    /\ opc' = "returned"
    /\ analysis_count' = analysis_count + 1
    /\ UNCHANGED <<caps, in_url, analysis_type, error, ppc, prot_url, basic_raw, offline,
                   results, loop_i, last, blocked_count, elapsed, issued, driver>>
    /\ UNCHANGED exported
    /\ UNCHANGED aux_vars

(***************************************************************************)
(* export_results.  A Python value is a record tagged with its type; a     *)
(* dict is the sequence of its items in insertion order.  A JSON text is   *)
(* the tree of its tokens: object, array, string, number (written as an    *)
(* integer or as a real), true/false, null.                                *)
(***************************************************************************)
PyStr(v) == [t |-> "str", v |-> v]

PyInt(v) == [t |-> "int", v |-> v]

PyFloat(v) == [t |-> "float", v |-> v]

PyBool(v) == [t |-> "bool", v |-> v]

PyList(items) == [t |-> "list", v |-> items]

PyTuple(items) == [t |-> "tuple", v |-> items]

PyDict(items) == [t |-> "dict", v |-> items]

Item(key, value) == [key |-> key, value |-> value]

\* the name json.dump writes for a dict key: a str as it is, an int as
\* its digits
KeyText(key) == IF key.t = "str" THEN key.v ELSE [digits |-> key.v]

\* json.dump(results, f, indent=2, ensure_ascii=False): list and tuple
\* both become arrays, every dict key becomes a string
RECURSIVE json_dump(_)
json_dump(py) ==
    CASE py.t \in {"list", "tuple"} ->
            [t |-> "array",
             v |-> [i \in 1..Len(py.v) |-> json_dump(py.v[i])]]
      [] py.t = "dict" ->
            [t |-> "object",
             v |-> [i \in 1..Len(py.v) |->
                      [name |-> KeyText(py.v[i].key),
                       value |-> json_dump(py.v[i].value)]]]
      [] py.t = "str" -> [t |-> "string", v |-> py.v]
      [] py.t = "int" -> [t |-> "number", real |-> FALSE, v |-> py.v]
      [] py.t = "float" -> [t |-> "number", real |-> TRUE, v |-> py.v]
      [] py.t = "bool" -> [t |-> "literal", v |-> py.v]

\* json.load: an object becomes a dict with str keys, an array a list
RECURSIVE json_load(_)
json_load(js) ==
    CASE js.t = "array" ->
            PyList([i \in 1..Len(js.v) |-> json_load(js.v[i])])
      [] js.t = "object" ->
            PyDict([i \in 1..Len(js.v) |->
                      Item(PyStr(js.v[i].name), json_load(js.v[i].value))])
      [] js.t = "string" -> PyStr(js.v)
      [] js.t = "number" -> IF js.real THEN PyFloat(js.v) ELSE PyInt(js.v)
      [] js.t = "literal" -> PyBool(js.v)

\* results['mechanisms'] of analyze: name -> {'detected', 'score', ...}
PyMechanisms(ms) ==
    PyDict([i \in 1..Len(ms) |->
              Item(PyStr(ms[i].name),
                   PyDict(<<Item(PyStr("detected"), PyBool(ms[i].detected)),
                            Item(PyStr("score"), PyInt(ms[i].score))>>))])

\* the dict of test_bypass_methods: name -> {'success', ...}
PyBypassMethods(bm) ==
    PyDict([i \in 1..Len(bm) |->
              Item(PyStr(bm[i].name),
                   PyDict(<<Item(PyStr("success"),
                                 PyBool(bm[i].success))>>))])

\* lines 540-544: a float from the division, the int 0 otherwise
PyRate(methods, rate) ==
    IF Successful(methods) # <<>> THEN PyFloat(rate) ELSE PyInt(0)

\* the report of ProtectionAnalyzer.analyze as _translate_protection_results
\* leaves it
PyProtection(p) ==
    PyDict(<<Item(PyStr("url"), PyStr(p.url)),
             Item(PyStr("mechanisms"), PyMechanisms(p.mechanisms)),
             Item(PyStr("bypass_methods"),
                  PyBypassMethods(p.bypass_methods)),
             Item(PyStr("total_score"), PyInt(p.total_score)),
             Item(PyStr("complexity_level"), PyStr(p.complexity_level))>>
           \o (IF "best_method" \in DOMAIN p
               THEN <<Item(PyStr("best_method"), PyStr(p.best_method)),
                      Item(PyStr("bypass_success_rate"),
                           PyRate(p.bypass_methods,
                                  p.bypass_success_rate))>>
               ELSE <<>>)
           \o <<Item(PyStr("complexity_level_localized"),
                     PyStr(p.complexity_level_localized)),
                Item(PyStr("bypass_methods_localized"),
                     PyList([i \in 1..Len(p.bypass_methods) |->
                               PyStr(p.bypass_methods[i].name)])),
                Item(PyStr("protection_details_localized"),
                     PyDict(<<>>))>>)

\* what StructureAnalyzer.analyze returned: the failure record, or the
\* report, of which content_types is kept
PyStructure(st) ==
    PyDict(<<Item(PyStr("url"), PyStr(st.url)),
             Item(PyStr("analysis_type"), PyStr("structure"))>>
           \o (IF "error" \in st.keys
               THEN <<Item(PyStr("success"), PyBool(FALSE))>>
               ELSE <<Item(PyStr("content_types"),
                           PyDict(<<Item(PyStr("products"),
                                         PyInt(IF st.products THEN 1
                                               ELSE 0))>>))>>))

\* recommendations kept in a tuple
PyRecommendations_mut(recs) ==
    PyTuple([i \in 1..Len(recs) |-> PyStr(recs[i])])

\* _generate_recommendations returns a list of str
PyRecommendations(recs) ==
    PyList([i \in 1..Len(recs) |-> PyStr(recs[i])])

PySummary(sm) ==
    PyDict(<<Item(PyStr("url"), PyStr(sm.url)),
             Item(PyStr("scraping_difficulty"),
                  PyStr(sm.scraping_difficulty))>>)

\* the dict analyze_website returns
PyResult(res) ==
    PyDict(<<Item(PyStr("url"), PyStr(res.url)),
             Item(PyStr("analysis_type"), PyStr(res.analysis_type)),
             Item(PyStr("version"), PyStr("3.1.0"))>>
           \o (IF "protection" \in DOMAIN res
               THEN <<Item(PyStr("protection"),
                           PyProtection(res.protection))>>
               ELSE <<>>)
           \o (IF "structure" \in DOMAIN res
               THEN <<Item(PyStr("structure"),
                           PyStructure(res.structure))>>
               ELSE <<>>)
           \o <<Item(PyStr("recommendations"),
                     PyRecommendations(res.recommendations)),
                Item(PyStr("summary"), PySummary(res.summary))>>)

\* export_results(filename, results, 'json') for the result just returned
ExportResults ==
    /\ opc = "returned"
    /\ exported' = json_dump(PyResult(result))
    /\ UNCHANGED <<caps, analysis_count, opc, in_url, analysis_type, result,
                   error, ppc, prot_url, results, basic_raw, offline, loop_i, last,
                   blocked_count, elapsed, issued, driver, struct_vars>>
    /\ UNCHANGED aux_vars

(***************************************************************************)
(* One HTTP request at the transport layer, attempt by attempt.  An answer *)
(* is the status the server gives to one attempt, 0 when the attempt fails *)
(* below HTTP.                                                             *)
(***************************************************************************)
\* Retry(total=3, ...) of create_session: the retries allowed after the
\* first attempt
total == 3

\* self.session carries the adapter of create_session; requests.Session()
\* as created in check_cookie_requirements and test_bypass_methods keeps
\* the default adapter, which retries nothing
Transports == {"self.session", "requests.Session()"}

max_retries(t) == IF t = "self.session" THEN total ELSE 0

\* the statuses the adapter of a transport answers with another attempt
forcelist(t) == IF t = "self.session" THEN status_forcelist ELSE {}

RetryIdle ==
    /\ transport = "self.session"
    /\ answers = <<>>
    /\ rpc = "idle"

\* a get is called on one of the sessions
IssueRequest ==
    /\ rpc \in {"idle", "answered", "raised"}
    /\ \E t \in Transports : transport' = t
    /\ answers' = <<>>
    /\ rpc' = "sending"
    /\ UNCHANGED <<engine_vars, dom_vars, gui_vars, unit_vars>>

\* one attempt.  A failed attempt (no answer, or a status of the
\* forcelist) uses up one retry; the request is sent again unless that
\* makes the count negative, in which case the get raises.  Any other
\* answer is handed to the caller
Attempt ==
    /\ rpc = "sending"
    /\ \E raw \in RawStatuses \cup {0} :
          LET failed == raw = 0 \/ raw \in forcelist(transport)
              left == max_retries(transport) - (Len(answers) + 1)
          IN  /\ answers' = Append(answers, raw)
              /\ rpc' = IF ~failed THEN "answered"
                        ELSE IF left >= 0 THEN "sending"
                        ELSE "raised"
    /\ UNCHANGED transport
    /\ UNCHANGED <<engine_vars, dom_vars, gui_vars, unit_vars>>

(***************************************************************************)
(* Analyses started from the GUI.  start_analysis starts a run_analysis    *)
(* thread without looking whether an earlier one is still running, and     *)
(* every thread calls analyze_website of the one analyzer the GUI holds,   *)
(* hence analyze of its one ProtectionAnalyzer.  Of analyze the steps that *)
(* touch self.driver are kept: the test 'if not self.driver', uc.Chrome    *)
(* with the assignment, and the use of self.driver.  A browser is the      *)
(* number uc.Chrome gave it, 0 is None.                                    *)
(***************************************************************************)
Threads == 1..MaxRuns

GuiIdle ==
    /\ run = [t \in Threads |-> "idle"]
    /\ shared_driver = 0
    /\ browsers = 0
    /\ using = [t \in Threads |-> 0]

\* start_analysis: the thread is started and runs up to the JavaScript probe
StartAnalysis ==
    /\ \E t \in Threads :
          /\ run[t] = "idle"
          /\ run' = [run EXCEPT ![t] = "javascript"]
    /\ UNCHANGED <<shared_driver, browsers, using>>
    /\ UNCHANGED <<engine_vars, dom_vars, retry_vars, unit_vars>>

\* analyze returns before the JavaScript probe (basic access failed), or
\* the get of the probe raised and analyze goes on to the bypass probe
SkipBrowser ==
    /\ \E t \in Threads, to \in {"bypass", "finished"} :
          /\ run[t] = "javascript"
          /\ run' = [run EXCEPT ![t] = to]
    /\ UNCHANGED <<shared_driver, browsers, using>>
    /\ UNCHANGED <<engine_vars, dom_vars, retry_vars, unit_vars>>

\* 'if not self.driver' of lines 240 and 421
CheckDriver ==
    /\ \E t \in Threads :
          /\ run[t] \in {"javascript", "bypass"}
          /\ run' = [run EXCEPT ![t] =
                        IF run[t] = "javascript"
                        THEN (IF shared_driver = 0 THEN "javascript_create"
                              ELSE "javascript_get")
                        ELSE (IF shared_driver = 0 THEN "bypass_create"
                              ELSE "bypass_get")]
    /\ UNCHANGED <<shared_driver, browsers, using>>
    /\ UNCHANGED <<engine_vars, dom_vars, retry_vars, unit_vars>>

\* self.driver = uc.Chrome(options=options) of lines 245 and 425; when
\* uc.Chrome raises, the except branch ends the probe
CreateDriver ==
    /\ \E t \in Threads, created \in BOOLEAN :
          /\ run[t] \in {"javascript_create", "bypass_create"}
          /\ IF created
             THEN /\ browsers' = browsers + 1
                  /\ shared_driver' = browsers + 1
                  /\ run' = [run EXCEPT ![t] =
                                IF run[t] = "javascript_create"
                                THEN "javascript_get" ELSE "bypass_get"]
             ELSE /\ UNCHANGED <<browsers, shared_driver>>
                  /\ run' = [run EXCEPT ![t] =
                                IF run[t] = "javascript_create"
                                THEN "bypass" ELSE "finished"]
    /\ UNCHANGED using
    /\ UNCHANGED <<engine_vars, dom_vars, retry_vars, unit_vars>>

\* self.driver.get(url) of lines 247 and 427: the thread drives the
\* browser self.driver refers to at this moment
DriverGet ==
    /\ \E t \in Threads :
          /\ run[t] \in {"javascript_get", "bypass_get"}
          /\ using' = [using EXCEPT ![t] = shared_driver]
          /\ run' = [run EXCEPT ![t] =
                        IF run[t] = "javascript_get"
                        THEN "javascript_page" ELSE "bypass_page"]
    /\ UNCHANGED <<shared_driver, browsers>>
    /\ UNCHANGED <<engine_vars, dom_vars, retry_vars, unit_vars>>

\* self.driver.page_source has been read: the probe is over
ProbeDone ==
    /\ \E t \in Threads :
          /\ run[t] \in {"javascript_page", "bypass_page"}
          /\ using' = [using EXCEPT ![t] = 0]
          /\ run' = [run EXCEPT ![t] =
                        IF run[t] = "javascript_page"
                        THEN "bypass" ELSE "finished"]
    /\ UNCHANGED <<shared_driver, browsers>>
    /\ UNCHANGED <<engine_vars, dom_vars, retry_vars, unit_vars>>

\* the window is closed: root.mainloop() returns and main ends, and with it
\* the process and its daemon threads.  Nothing on that path (or anywhere
\* else) calls ProtectionAnalyzer.cleanup, so a browser that was started is
\* left as it is: shared_driver keeps naming it
CloseWindow ==
    /\ \E t \in Threads : run[t] # "exited"
    /\ run' = [t \in Threads |-> "exited"]
    /\ using' = [t \in Threads |-> 0]
    /\ UNCHANGED <<shared_driver, browsers>>
    /\ UNCHANGED <<engine_vars, dom_vars, retry_vars, unit_vars>>

\* run_analysis ends; start_analysis can start the thread's successor
RunFinished ==
    /\ \E t \in Threads :
          /\ run[t] = "finished"
          /\ run' = [run EXCEPT ![t] = "idle"]
    /\ UNCHANGED <<shared_driver, browsers, using>>
    /\ UNCHANGED <<engine_vars, dom_vars, retry_vars, unit_vars>>

(***************************************************************************)
(* check_cloudflare_protection and check_captcha_protection on one page.   *)
(* A text is the sequence of its characters; response.headers is a         *)
(* case-insensitive dict, kept as a function from lower-case header names. *)
(***************************************************************************)
\* the substrings check_cloudflare_protection looks for: in the server
\* header, in the set-cookie header, and three in the body
cf_words ==
    [server |->
        <<"c", "l", "o", "u", "d", "f", "l", "a", "r", "e">>,
     set_cookie |->
        <<"_", "_", "c", "f", "d", "u", "i", "d">>,
     checking |->
        <<"c", "h", "e", "c", "k", "i", "n", "g", " ", "y", "o", "u",
          "r", " ", "b", "r", "o", "w", "s", "e", "r">>,
     ray_id |->
        <<"c", "l", "o", "u", "d", "f", "l", "a", "r", "e", " ", "r",
          "a", "y", " ", "i", "d">>,
     verification |->
        <<"c", "f", "-", "b", "r", "o", "w", "s", "e", "r", "-", "v",
          "e", "r", "i", "f", "i", "c", "a", "t", "i", "o", "n">>]

\* the substrings check_captcha_protection looks for, in its order
captcha_words ==
    <<<<"r", "e", "c", "a", "p", "t", "c", "h", "a">>,
      <<"c", "a", "p", "t", "c", "h", "a">>,
      <<"h", "c", "a", "p", "t", "c", "h", "a">>,
      <<"s", "o", "l", "v", "e", " ", "t", "h", "e", " ", "p", "u",
        "z", "z", "l", "e">>,
      <<"v", "e", "r", "i", "f", "y", " ", "y", "o", "u", " ", "a",
        "r", "e", " ", "h", "u", "m", "a", "n">>,
      <<"g", "e", "e", "t", "e", "s", "t">>>>

\* the bodies a target can answer with
Texts ==
    {<<"h", "e", "l", "l", "o", " ", "w", "o", "r", "l", "d">>,
     <<"<", "d", "i", "v", " ", "c", "l", "a", "s", "s", "=", "g", "-",
       "r", "e", "c", "a", "p", "t", "c", "h", "a", ">", " ", "c", "h",
       "e", "c", "k", "i", "n", "g", " ", "y", "o", "u", "r", " ", "b",
       "r", "o", "w", "s", "e", "r">>,
     <<"C", "h", "e", "c", "k", "i", "n", "g", " ", "Y", "o", "u", "r",
       " ", "B", "r", "o", "w", "s", "e", "r">>,
     <<"S", "o", "l", "v", "e", " ", "t", "h", "e", " ", "C", "A", "P",
       "T", "C", "H", "A">>,
     <<"i", "d", "=", "c", "f", "-", "b", "r", "o", "w", "s", "e", "r",
       "-", "v", "e", "r", "i", "f", "i", "c", "a", "t", "i", "o", "n">>,
     <<"i", "d", "=", "C", "F", "-", "B", "r", "o", "w", "s", "e", "r",
       "-", "V", "e", "r", "i", "f", "i", "c", "a", "t", "i", "o", "n">>,
     <<"C", "l", "o", "u", "d", "f", "l", "a", "r", "e", " ", "R", "a",
       "y", " ", "I", "D", ":", " ", "7", "d", "1">>,
     <<"h", "-", "c", "a", "p", "t", "c", "h", "a", ":", " ", "v", "e",
       "r", "i", "f", "y", " ", "y", "o", "u", " ", "a", "r", "e", " ",
       "h", "u", "m", "a", "n">>,
     <<"s", "o", "l", "v", "e", " ", "t", "h", "e", " ", "p", "u", "z",
       "z", "l", "e">>,
     <<"g", "e", "e", "t", "e", "s", "t", ".", "j", "s">>}

\* str.lower, on the letters A-Z
Lower(s) ==
    LET LowerCase ==
           [A |-> "a", B |-> "b", C |-> "c", D |-> "d", E |-> "e",
            F |-> "f", G |-> "g", H |-> "h", I |-> "i", J |-> "j",
            K |-> "k", L |-> "l", M |-> "m", N |-> "n", O |-> "o",
            P |-> "p", Q |-> "q", R |-> "r", S |-> "s", T |-> "t",
            U |-> "u", V |-> "v", W |-> "w", X |-> "x", Y |-> "y",
            Z |-> "z"]
    IN  [i \in 1..Len(s) |->
            IF s[i] \in DOMAIN LowerCase THEN LowerCase[s[i]] ELSE s[i]]

\* the header sets a target can answer with
HeaderSets ==
    LET servers == {<<"n", "g", "i", "n", "x">>,
                    <<"C", "l", "o", "u", "d", "f", "l", "a", "r", "e">>}
        cookies == {<<"s", "i", "d", "=", "1">>,
                    <<"_", "_", "c", "f", "d", "u", "i", "d", "=", "d",
                      "4", "1", ";", " ", "p", "a", "t", "h", "=", "/">>}
    IN  {h \in UNION {[names -> servers \cup cookies \cup {<<"1">>}] :
                        names \in SUBSET {"server", "cf-ray", "set-cookie"}} :
            /\ "server" \in DOMAIN h => h["server"] \in servers
            /\ "cf-ray" \in DOMAIN h => h["cf-ray"] = <<"1">>
            /\ "set-cookie" \in DOMAIN h => h["set-cookie"] \in cookies}

Pages == [headers : HeaderSets, text : Texts]

\* self.session.get(url, ...) on the page: raised when the call raises
Response(target, raw) ==
    [raised |-> SessionGet(raw) = 0, headers |-> target.headers,
     text |-> target.text]

\* 'detected' of the dict check_cloudflare_protection returns: get(name) is
\* response.headers.get(name, ''), detected is any(cf_indicators)
check_cloudflare_protection(response) ==
    LET get(name) == IF name \in DOMAIN response.headers
                     THEN response.headers[name] ELSE <<>>
        cf_indicators ==
           <<Contains(Lower(get("server")), cf_words.server),
             "cf-ray" \in DOMAIN response.headers,
             Contains(get("set-cookie"), cf_words.set_cookie),
             Contains(Lower(response.text), cf_words.checking),
             Contains(Lower(response.text), cf_words.ray_id),
             Contains(response.text, cf_words.verification)>>
    IN  IF response.raised THEN FALSE
        ELSE \E i \in DOMAIN cf_indicators : cf_indicators[i]

\* the CAPTCHA check reading the body as it came
check_captcha_protection_mut(response) ==
    LET content == response.text
        captcha_indicators ==
           [i \in DOMAIN captcha_words |->
               Contains(content, captcha_words[i])]
    IN  IF response.raised THEN FALSE
        ELSE \E i \in DOMAIN captcha_indicators : captcha_indicators[i]

\* 'detected' of the dict check_captcha_protection returns
check_captcha_protection(response) ==
    LET content == Lower(response.text)
        captcha_indicators ==
           [i \in DOMAIN captcha_words |->
               Contains(content, captcha_words[i])]
    IN  IF response.raised THEN FALSE
        ELSE \E i \in DOMAIN captcha_indicators : captcha_indicators[i]

NoFinding == [name |-> "", detected |-> FALSE, score |-> 0]

PageIdle ==
    /\ page = [headers |-> <<>>, text |-> <<>>]
    /\ received = {}
    /\ cloudflare = NoFinding
    /\ captcha = NoFinding
    /\ cpc = "idle"

\* check_cloudflare_protection and the finding analyze stores
ProbeCloudflare ==
    /\ cpc = "cloudflare"
    /\ \E raw \in RawStatuses \cup {0} :
          LET response == Response(page, raw)
          IN  /\ cloudflare' =
                    Finding("cloudflare",
                            check_cloudflare_protection(response), 25, 0)
              /\ received' = IF response.raised THEN received
                             ELSE received \cup {"cloudflare"}
    /\ cpc' = "captcha"
    /\ UNCHANGED <<page, captcha>>
    /\ UNCHANGED <<engine_vars, dom_vars, gui_vars, retry_vars, metric_vars,
                   wrapper_vars>>

\* check_captcha_protection and the finding analyze stores
ProbeCaptcha ==
    /\ cpc = "captcha"
    /\ \E raw \in RawStatuses \cup {0} :
          LET response == Response(page, raw)
          IN  /\ captcha' =
                    Finding("captcha",
                            check_captcha_protection(response), 40, 0)
              /\ received' = IF response.raised THEN received
                             ELSE received \cup {"captcha"}
    /\ cpc' = "done"
    /\ UNCHANGED <<page, cloudflare>>
    /\ UNCHANGED <<engine_vars, dom_vars, gui_vars, retry_vars, metric_vars,
                   wrapper_vars>>

(***************************************************************************)
(* analyze_performance_indicators and evaluate_parsing_complexity on the   *)
(* counts of one page.  complexity_score is kept as the fraction           *)
(* num / 4000: page_size / 1000 has three decimals and the sum is divided  *)
(* by 4.  A letter outside ASCII is written as its code point.             *)
(***************************************************************************)
\* the counts analyze reads from one soup; 'scripts' has one entry for each
\* script tag, so len(results['scripts']) is scripts_count
Metrics ==
    [page_size : {0, 500, 40000, 100000, 250000},
     images_count : {0, 10, 25, 40},
     scripts_count : {0, 5, 6, 10, 11, 17, 30},
     external_resources : {0, 50, 80},
     frameworks_detected : {{}, {"jquery"}, {"react", "bootstrap"}},
     forms_count : {0, 3, 4},
     max_nesting_depth : {3, 15, 16}]

Min(a, b) == IF a < b THEN a ELSE b

\* the complexity score without the caps on its four terms
ComplexityNum_mut(m) ==
    m.page_size + 1000 * (m.images_count * 2) + 1000 * (m.scripts_count * 3)
    + 1000 * m.external_resources

\* 4000 * complexity_score
ComplexityNum(m) ==
    Min(m.page_size, 100 * 1000) + 1000 * Min(m.images_count * 2, 50)
    + 1000 * Min(m.scripts_count * 3, 50)
    + 1000 * Min(m.external_resources, 50)

analyze_performance_indicators(m) ==
    [complexity_score |-> [num |-> ComplexityNum(m), den |-> 4000],
     loading_complexity |->
        IF ComplexityNum(m) > 70 * 4000 THEN "HIGH"
        ELSE IF ComplexityNum(m) > 40 * 4000 THEN "MEDIUM"
        ELSE "LOW"]

\* the score with both script increments applied to a page of many scripts
ParsingScore_mut(m, perf) ==
    (IF m.scripts_count > 10 THEN 30 ELSE 0)
    + (IF m.scripts_count > 5 THEN 15 ELSE 0)
    + (IF m.frameworks_detected # {} THEN 25 ELSE 0)
    + (IF m.forms_count > 3 THEN 15 ELSE 0)
    + (IF perf.loading_complexity = "HIGH" THEN 20 ELSE 0)
    + (IF m.max_nesting_depth > 15 THEN 10 ELSE 0)

\* score of evaluate_parsing_complexity
ParsingScore(m, perf) ==
    (IF m.scripts_count > 10 THEN 30
     ELSE IF m.scripts_count > 5 THEN 15 ELSE 0)
    + (IF m.frameworks_detected # {} THEN 25 ELSE 0)
    + (IF m.forms_count > 3 THEN 15 ELSE 0)
    + (IF perf.loading_complexity = "HIGH" THEN 20 ELSE 0)
    + (IF m.max_nesting_depth > 15 THEN 10 ELSE 0)

\* the dict evaluate_parsing_complexity returns
evaluate_parsing_complexity(m, perf) ==
    LET score == ParsingScore(m, perf)
    IN  [score |-> score,
         level |-> IF score >= 70 THEN "VERY_HIGH"
                   ELSE IF score >= 50 THEN "HIGH"
                   ELSE IF score >= 30 THEN "MEDIUM"
                   ELSE "LOW",
         recommendation |->
            IF score >= 70
            THEN "Selenium u0438u043bu0438 Playwright u043eu0431u044fu0437u0430u0442u0435u043bu044cu043du044b"
            ELSE IF score >= 50 THEN "u0420u0435u043au043eu043cu0435u043du0434u0443u0435u0442u0441u044f Selenium"
            ELSE IF score >= 30
            THEN "Requests + BeautifulSoup u0441 u043eu0441u0442u043eu0440u043eu0436u043du043eu0441u0442u044cu044e"
            ELSE "u041fu0440u043eu0441u0442u043eu0439 requests + BeautifulSoup"]

NoPerformance ==
    [complexity_score |-> [num |-> 0, den |-> 4000],
     loading_complexity |-> "LOW"]

NoComplexity == [score |-> 0, level |-> "LOW", recommendation |-> ""]

MetricIdle ==
    /\ metrics = [page_size |-> 0, images_count |-> 0, scripts_count |-> 0,
                  external_resources |-> 0, frameworks_detected |-> {},
                  forms_count |-> 0, max_nesting_depth |-> 0]
    /\ performance = NoPerformance
    /\ parsing_complexity = NoComplexity
    /\ mpc = "idle"


\* results['performance'] = self.analyze_performance_indicators(soup)
AnalyzePerformance ==
    /\ mpc = "performance"
    /\ performance' = analyze_performance_indicators(metrics)
    /\ mpc' = "parsing_complexity"
    /\ UNCHANGED <<metrics, parsing_complexity>>
    /\ UNCHANGED <<engine_vars, dom_vars, gui_vars, retry_vars, page_vars,
                   wrapper_vars>>

\* results['parsing_complexity'] = self.evaluate_parsing_complexity(results)
EvaluateParsingComplexity ==
    /\ mpc = "parsing_complexity"
    /\ parsing_complexity' = evaluate_parsing_complexity(metrics, performance)
    /\ mpc' = "done"
    /\ UNCHANGED <<metrics, performance>>
    /\ UNCHANGED <<engine_vars, dom_vars, gui_vars, retry_vars, page_vars,
                   wrapper_vars>>

(***************************************************************************)
(* utils.retry_on_failure: one call of the wrapper it returns.             *)
(***************************************************************************)
\* how a call of func can end: it returns v, or it raises v
CallOutcomes ==
    {[ok |-> TRUE, v |-> "a"], [ok |-> TRUE, v |-> "b"],
     [ok |-> FALSE, v |-> "E1"], [ok |-> FALSE, v |-> "E2"]}

Running == [kind |-> "running", v |-> "None"]

\* the wait after the last failed attempt as well
SleepsAfter_mut(i, n) == i < n

\* if attempt < max_attempts - 1
SleepsAfter(i, n) == i < n - 1

WrapperIdle ==
    /\ max_attempts = 0
    /\ delay = 1
    /\ attempt = 0
    /\ last_exception = "None"
    /\ history = <<>>
    /\ sleeps = <<>>
    /\ outcome = Running
    /\ wpc = "idle"

UnitIdle == PageIdle /\ MetricIdle /\ WrapperIdle

\* for attempt in range(max_attempts): the next attempt, or the end of the
\* loop
ForAttempt ==
    /\ wpc = "for"
    /\ wpc' = IF attempt < max_attempts THEN "try" ELSE "raise"
    /\ UNCHANGED <<max_attempts, delay, attempt, last_exception, history,
                   sleeps, outcome>>
    /\ UNCHANGED <<engine_vars, dom_vars, gui_vars, retry_vars, page_vars,
                   metric_vars>>

\* return func(*args, **kwargs), and the except branch up to the sleep
CallFunc ==
    /\ wpc = "try"
    /\ \E r \in CallOutcomes :
          /\ history' = Append(history, r)
          /\ IF r.ok
             THEN /\ outcome' = [kind |-> "returned", v |-> r.v]
                  /\ wpc' = "done"
                  /\ last_exception' = last_exception
             ELSE /\ outcome' = outcome
                  /\ last_exception' = r.v
                  /\ wpc' = IF SleepsAfter(attempt, max_attempts)
                            THEN "sleep" ELSE "continue"
    /\ UNCHANGED <<max_attempts, delay, attempt, sleeps>>
    /\ UNCHANGED <<engine_vars, dom_vars, gui_vars, retry_vars, page_vars,
                   metric_vars>>

\* time.sleep(delay * (attempt + 1))
Sleep ==
    /\ wpc = "sleep"
    /\ sleeps' = Append(sleeps, delay * (attempt + 1))
    /\ wpc' = "continue"
    /\ UNCHANGED <<max_attempts, delay, attempt, last_exception, history,
                   outcome>>
    /\ UNCHANGED <<engine_vars, dom_vars, gui_vars, retry_vars, page_vars,
                   metric_vars>>

\* continue
Continue ==
    /\ wpc = "continue"
    /\ attempt' = attempt + 1
    /\ wpc' = "for"
    /\ UNCHANGED <<max_attempts, delay, last_exception, history, sleeps,
                   outcome>>
    /\ UNCHANGED <<engine_vars, dom_vars, gui_vars, retry_vars, page_vars,
                   metric_vars>>

\* raise last_exception; raise None is a TypeError
RaiseLast ==
    /\ wpc = "raise"
    /\ outcome' = [kind |-> "raised",
                   v |-> IF last_exception = "None" THEN "TypeError"
                         ELSE last_exception]
    /\ wpc' = "done"
    /\ UNCHANGED <<max_attempts, delay, attempt, last_exception, history,
                   sleeps>>
    /\ UNCHANGED <<engine_vars, dom_vars, gui_vars, retry_vars, page_vars,
                   metric_vars>>

(***************************************************************************)
(* The specification.                                                      *)
(***************************************************************************)
EngineInit ==
    /\ caps \in SUBSET Capabilities
    /\ analysis_count = 0
    /\ opc = "idle"
    /\ in_url = NotCalled
    /\ analysis_type = "both"
    /\ result = NoResult
    /\ error = "none"
    /\ ppc = "idle"
    /\ prot_url = NotCalled
    /\ results = NoReport
    /\ basic_raw = 0
    /\ offline = FALSE
    /\ loop_i = 0
    /\ last = NoExchange
    /\ blocked_count = 0
    /\ elapsed = 0
    /\ issued = {}
    /\ driver = "None"
    /\ struct_url = NotCalled
    /\ structure = NoStructure
    /\ fetches = 0
    /\ exported = NotExported

\* no document is being analysed
DomIdle ==
    /\ soup = <<>>
    /\ content_types = NoTally
    /\ suggested_selectors = NoSelectors
    /\ previous_selectors = <<>>
    /\ spc = "idle"

Init == EngineInit /\ DomIdle /\ GuiIdle /\ RetryIdle /\ UnitIdle

Next ==
    \/ AnalyzeWebsite
    \/ CheckBasicAccess
    \/ UserAgentRequest
    \/ UserAgentRecord
    \/ RateLimitRequest
    \/ RateLimitRecord
    \/ CheckCloudflare
    \/ CheckJavascript
    \/ CheckCaptcha
    \/ CheckCookies
    \/ BypassAndScore
    \/ ProtectionReturn
    \/ ProtectionRaised
    \/ StructureAnalyze
    \/ ExportResults

Spec == Init /\ [][Next]_vars

\* the classification of one document, drawn from Documents
DomInit ==
    /\ EngineInit
    /\ caps = Capabilities
    /\ UnitIdle
    /\ GuiIdle
    /\ RetryIdle
    /\ soup \in Documents
    /\ content_types = NoTally
    /\ suggested_selectors = NoSelectors
    /\ previous_selectors = <<>>
    /\ spc = "parsed"

DomNext ==
    \/ DetectContentTypes
    \/ GenerateSelectors
    \/ Reanalyze

DomSpec == DomInit /\ [][DomNext]_vars

\* the requests of the protection engine, one at a time
RetryInit ==
    /\ EngineInit
    /\ caps = Capabilities
    /\ UnitIdle
    /\ DomIdle
    /\ GuiIdle
    /\ RetryIdle

RetryNext ==
    \/ IssueRequest
    \/ Attempt

RetrySpec == RetryInit /\ [][RetryNext]_vars

\* the run_analysis threads of the GUI on the one shared analyzer, with
\* every optional module imported
GuiInit ==
    /\ EngineInit
    /\ caps = Capabilities
    /\ UnitIdle
    /\ DomIdle
    /\ RetryIdle
    /\ GuiIdle

GuiNext ==
    \/ StartAnalysis
    \/ SkipBrowser
    \/ CheckDriver
    \/ CreateDriver
    \/ DriverGet
    \/ ProbeDone
    \/ RunFinished
    \/ CloseWindow

GuiSpec == GuiInit /\ [][GuiNext]_vars

\* the Cloudflare probe and the CAPTCHA probe on one page, drawn from Pages
PageInit ==
    /\ EngineInit
    /\ caps = Capabilities
    /\ DomIdle
    /\ GuiIdle
    /\ RetryIdle
    /\ MetricIdle
    /\ WrapperIdle
    /\ page \in Pages
    /\ received = {}
    /\ cloudflare = NoFinding
    /\ captcha = NoFinding
    /\ cpc = "cloudflare"

PageNext ==
    \/ ProbeCloudflare
    \/ ProbeCaptcha

PageSpec == PageInit /\ [][PageNext]_vars

\* the two scores of one parsed page, its counts drawn from Metrics
MetricInit ==
    /\ EngineInit
    /\ caps = Capabilities
    /\ DomIdle
    /\ GuiIdle
    /\ RetryIdle
    /\ PageIdle
    /\ WrapperIdle
    /\ metrics \in Metrics
    /\ performance = NoPerformance
    /\ parsing_complexity = NoComplexity
    /\ mpc = "performance"

MetricNext ==
    \/ AnalyzePerformance
    \/ EvaluateParsingComplexity

MetricSpec == MetricInit /\ [][MetricNext]_vars

\* one call of a wrapped function, the arguments of the decorator drawn
\* from 0..MaxAttempts and {1, 2}
WrapperInit ==
    /\ EngineInit
    /\ caps = Capabilities
    /\ DomIdle
    /\ GuiIdle
    /\ RetryIdle
    /\ PageIdle
    /\ MetricIdle
    /\ max_attempts \in 0..MaxAttempts
    /\ delay \in {1, 2}
    /\ attempt = 0
    /\ last_exception = "None"
    /\ history = <<>>
    /\ sleeps = <<>>
    /\ outcome = Running
    /\ wpc = "for"

WrapperNext ==
    \/ ForAttempt
    \/ CallFunc
    \/ Sleep
    \/ Continue
    \/ RaiseLast

WrapperSpec == WrapperInit /\ [][WrapperNext]_vars


(***************************************************************************)
(* Properties.  A report of ProtectionAnalyzer.analyze is the value of     *)
(* results in a state with ppc = "done".                                   *)
(***************************************************************************)

\* C1: in every report analyze returns, complexity_level is the step
\* function of total_score: >= 80 CRITICAL, 60..79 HIGH, 40..59 MEDIUM,
\* below 40 LOW.
C1_LevelIsStepOfScore ==
    ppc = "done" =>
       /\ results.total_score >= 80 => results.complexity_level = "CRITICAL"
       /\ (results.total_score >= 60 /\ results.total_score < 80)
             => results.complexity_level = "HIGH"
       /\ (results.total_score >= 40 /\ results.total_score < 60)
             => results.complexity_level = "MEDIUM"
       /\ results.total_score < 40 => results.complexity_level = "LOW"

\* a report of the normal path whose score is on the HIGH boundary
C1_Witness ==
    /\ ppc = "done"
    /\ Len(results.mechanisms) = 7
    /\ results.total_score = 60
    /\ results.complexity_level = "HIGH"

\* C2: when the basic-access probe reports the target inaccessible (a
\* target answering 503 included), the report has total_score 100, level
\* CRITICAL, exactly the one finding basic_access with detected false, and
\* no other probe has issued a request in that run.
C2_InaccessibleShortCircuits ==
    /\ (ppc # "basic_access" /\ prot_url # NotCalled /\ basic_raw = 503
        /\ opc = "protection")
          => (ppc = "done" /\ ~results.mechanisms[1].detected)
    /\ (ppc = "done" /\ ~results.mechanisms[1].detected) =>
          /\ results.total_score = 100
          /\ results.complexity_level = "CRITICAL"
          /\ Len(results.mechanisms) = 1
          /\ results.mechanisms[1].name = "basic_access"
          /\ results.bypass_methods = <<>>
          /\ issued = {"basic_access"}

\* the report for a target that answers 503
C2_Witness ==
    /\ ppc = "done"
    /\ basic_raw = 503
    /\ ~results.mechanisms[1].detected
    /\ results.total_score = 100

\* C3 as claimed: in every report, on the short-circuit path too,
\* total_score is the sum of the scores of the recorded findings.
C3_Original ==
    ppc = "done" =>
       LET m == results.mechanisms
       IN  IF Len(m) = 1 THEN results.total_score = m[1].score
           ELSE results.total_score =
                   m[1].score + m[2].score + m[3].score + m[4].score
                   + m[5].score + m[6].score + m[7].score

\* C3 amended: on the normal path total_score is the sum of the scores of
\* all seven recorded findings (basic_access included); on the
\* short-circuit path total_score is 100 while the one recorded score is 0.
C3_ScoreIsSumOnNormalPath ==
    ppc = "done" =>
       LET m == results.mechanisms
       IN  IF m[1].detected
           THEN /\ Len(m) = 7
                /\ results.total_score =
                      m[1].score + m[2].score + m[3].score + m[4].score
                      + m[5].score + m[6].score + m[7].score
           ELSE /\ Len(m) = 1
                /\ m[1].score = 0
                /\ results.total_score = 100

\* a normal-path report in which every mechanism was detected
C3_Witness ==
    /\ ppc = "done"
    /\ Len(results.mechanisms) = 7
    /\ \A i \in 1..7 : results.mechanisms[i].detected
    /\ results.total_score = 150

\* C4 as claimed: on the normal path total_score is the sum of the scores
\* of the six findings after basic_access.
C4_Original ==
    (ppc = "done" /\ results.mechanisms[1].detected) =>
       LET m == results.mechanisms
       IN  results.total_score =
              m[2].score + m[3].score + m[4].score + m[5].score
              + m[6].score + m[7].score

\* C4 amended: on the normal path the basic_access finding has score 10 and
\* total_score is 10 more than the sum of the scores of the other six.
C4_BasicAccessCountsTen ==
    (ppc = "done" /\ results.mechanisms[1].detected) =>
       LET m == results.mechanisms
       IN  /\ m[1].name = "basic_access"
           /\ m[1].score = 10
           /\ results.total_score - 10 =
                 m[2].score + m[3].score + m[4].score + m[5].score
                 + m[6].score + m[7].score

\* the normal-path report with nothing detected: the six scores add up to
\* 25 and the total is 35
C4_Witness ==
    /\ ppc = "done"
    /\ results.mechanisms[1].detected
    /\ \A i \in 2..7 : ~results.mechanisms[i].detected
    /\ results.total_score = 35

\* C5 as claimed: the target counts as accessible exactly when the first
\* get is answered with a 2xx status.
C5_Original ==
    (prot_url # NotCalled /\ Len(results.mechanisms) >= 1) =>
       (results.mechanisms[1].detected <=> basic_raw \in 200..299)

\* C5 amended: the short-circuit is taken exactly when the first get raises
\* or is answered with a status other than 200; only status 200 counts as
\* accessible, and then all the remaining probes run.
C5_ShortCircuitIffNot200 ==
    (prot_url # NotCalled /\ Len(results.mechanisms) >= 1) =>
       /\ (ppc = "done" /\ Len(results.mechanisms) = 1) <=> basic_raw # 200
       /\ results.mechanisms[1].detected <=> basic_raw = 200
       /\ (ppc = "done" /\ basic_raw = 200) => issued = ProbeNames

\* a 204 answer that was short-circuited
C5_Witness ==
    /\ ppc = "done"
    /\ basic_raw = 204
    /\ Len(results.mechanisms) = 1
    /\ results.total_score = 100

\* C6 as claimed: when the basic-access get fails below HTTP, analyze
\* raises instead of returning a report.
C6_Original ==
    (prot_url # NotCalled /\ ppc \notin {"basic_access", "idle"}
     /\ basic_raw = 0) => ppc = "raised"

\* C6 amended: when the basic-access get fails below HTTP, analyze raises
\* nothing: it returns the short-circuit report (total_score 100, CRITICAL,
\* basic_access not detected), and analyze_website does not fail because
\* of it.
C6_TransportFailureReturnsReport ==
    /\ (prot_url # NotCalled /\ ppc \notin {"basic_access", "idle"}
        /\ basic_raw = 0)
          => /\ ppc = "done"
             /\ ~results.mechanisms[1].detected
             /\ results.total_score = 100
             /\ results.complexity_level = "CRITICAL"
    /\ (prot_url # NotCalled /\ ppc = "idle" /\ basic_raw = 0)
          => (opc # "raised" /\ error = "none")

\* the report returned for a well-formed url whose get failed below HTTP
C6_Witness ==
    /\ ppc = "done"
    /\ prot_url = UrlHttp
    /\ basic_raw = 0
    /\ results.total_score = 100

\* C7: once basic access has succeeded, analyze never raises, whatever the
\* later requests do, and its report holds all seven mechanism keys.
C7_NoRaiseAfterBasicAccess ==
    (prot_url # NotCalled /\ basic_raw = 200) =>
       /\ ppc # "raised"
       /\ error = "none"
       /\ ppc = "done" =>
             [i \in 1..7 |-> results.mechanisms[i].name] =
                <<"basic_access", "user_agent", "rate_limiting",
                  "cloudflare", "javascript", "captcha", "cookies">>

\* C8: an analysis whose page could not be fetched gives no structure
\* record: every result analyze_website returns with a structure part
\* holds the full structure report.
C8_NoPartialStructure ==
    (opc = "returned" /\ "structure" \in DOMAIN result) =>
       result.structure.keys = StructureReportKeys

\* C9: an input that is empty or blank, has no host, has a scheme other
\* than http or https, or has a host outside the DNS-label pattern is
\* rejected with an error, and no engine issues a request for it.
C9_InvalidInputRejected ==
    (in_url \in {UrlEmpty, UrlBlank, UrlNoHost, UrlFtp, UrlBadHost,
                 UrlBadLabel}) =>
       /\ opc = "raised"
       /\ error = "ValueError"
       /\ prot_url = NotCalled
       /\ struct_url = NotCalled
       /\ issued = {}
       /\ fetches = 0

\* C10: the url handed to the engines and stored in the result is the
\* input trimmed and, when it has no scheme prefix, prefixed with https://.
C10_EnginesGetNormalizedUrl ==
    /\ prot_url # NotCalled => prot_url = Normalize(in_url)
    /\ struct_url # NotCalled => struct_url = Normalize(in_url)
    /\ result # NoResult => result.url = Normalize(in_url)

\* C11: for every protection report in a result analyze_website returns,
\* the recommendation branch and the difficulty of the summary are those of
\* the band (<40, <60, <80, >=80) that holds the report's total_score, so
\* they agree with its complexity_level.
C11_AdviceFollowsTotalScore ==
    (opc = "returned" /\ "protection" \in DOMAIN result) =>
       LET level == result.protection.complexity_level
           score == result.protection.total_score
           band == IF score < 40 THEN "LOW"
                   ELSE IF score < 60 THEN "MEDIUM"
                   ELSE IF score < 80 THEN "HIGH"
                   ELSE "CRITICAL"
       IN  /\ result.recommendations[1] = band
           /\ result.summary.scraping_difficulty = band
           /\ band = level

\* C12: for each content category the tally of detect_content_types is the
\* number of distinct elements (distinct by identity, here by position)
\* matched by at least one selector or keyword of the category: an element
\* matched by several patterns counts once, two different elements count
\* as two even when their markup is the same.
C12_TallyCountsNodes ==
    spc \in {"typed", "done"} =>
       \A k \in 1..Len(patterns) :
          content_types[patterns[k].content_type] =
             Cardinality(Matched(soup, patterns[k]))

\* C13: for each of the five categories of generate_selectors the
\* candidate list holds the patterns that matched with their match counts,
\* ordered by count descending, candidates of equal count in the order in
\* which their patterns were evaluated; analysing the unchanged document
\* again gives the identical result.
C13_CandidatesOrdered ==
    spc = "done" =>
       /\ \A k \in 1..Len(content_patterns) :
             LET cat == content_patterns[k].content_type
                 pats == content_patterns[k].patterns
                 PatternIndex(text) ==
                    CHOOSE n \in 1..Len(pats) : pats[n].text = text
             IN  cat \in DOMAIN suggested_selectors =>
                    LET list == suggested_selectors[cat]
                    IN  /\ \A i \in 1..Len(list) :
                              list[i].count =
                                 Cardinality(
                                    {e \in 1..Len(soup) :
                                        e \in select(soup,
                                           pats[PatternIndex(
                                                   list[i].selector)])})
                        /\ \A i, j \in 1..Len(list) :
                              i < j =>
                                 /\ list[i].count >= list[j].count
                                 /\ list[i].count = list[j].count =>
                                       PatternIndex(list[i].selector)
                                          < PatternIndex(list[j].selector)
       /\ previous_selectors # <<>> =>
             previous_selectors[1] = suggested_selectors

\* the second analysis of a document with two cards and one product item:
\* the third pattern leads, the tie keeps the order product, item
C13_Witness ==
    /\ spc = "done"
    /\ previous_selectors # <<>>
    /\ "products" \in DOMAIN suggested_selectors
    /\ Len(suggested_selectors["products"]) = 3
    /\ suggested_selectors["products"][1].selector = "[class*=card]"
    /\ suggested_selectors["products"][1].count = 2
    /\ suggested_selectors["products"][2].selector = "[class*=product]"
    /\ suggested_selectors["products"][2].count = 1
    /\ suggested_selectors["products"][3].selector = "[class*=item]"
    /\ suggested_selectors["products"][3].count = 1

\* C14: a category of generate_selectors none of whose patterns matches an
\* element is still a key of suggested_selectors, mapped to the empty
\* list; the key is never missing.
C14_EmptyCategoryKept ==
    spc = "done" =>
       \A k \in 1..Len(content_patterns) :
          LET cat == content_patterns[k].content_type
              pats == content_patterns[k].patterns
          IN  /\ cat \in DOMAIN suggested_selectors
              /\ (\A n \in 1..Len(pats) : select(soup, pats[n]) = {})
                    => suggested_selectors[cat] = <<>>

\* C15: in a report of the normal path, bypass_methods holds exactly the
\* methods whose capability is available, in the order requests,
\* requests_session, fake_useragent, cloudscraper, undetected_chrome;
\* bypass_success_rate is successes / attempted x 100, and best_method is
\* the first successful method in that order, or the placeholder
\* 'selenium' when none succeeded.
C15_RateAndBestMethod ==
    (ppc = "done" /\ results.mechanisms[1].detected) =>
       LET bm == results.bypass_methods
           Available(name) ==
              CASE name = "fake_useragent" -> "fake_useragent" \in caps
                [] name = "cloudscraper" -> "cloudscraper" \in caps
                [] name = "undetected_chrome" -> "selenium" \in caps
                [] OTHER -> TRUE
           attempted ==
              SelectSeq(<<"requests", "requests_session", "fake_useragent",
                          "cloudscraper", "undetected_chrome">>, Available)
           successes == Cardinality({i \in 1..Len(bm) : bm[i].success})
           rate == results.bypass_success_rate
       IN  /\ [i \in 1..Len(bm) |-> bm[i].name] = attempted
           /\ rate.den > 0
           /\ rate.num * Len(bm) = successes * 100 * rate.den
           /\ successes > 0 =>
                 \E i \in 1..Len(bm) :
                    /\ bm[i].success
                    /\ \A j \in 1..(i - 1) : ~bm[j].success
                    /\ results.best_method = bm[i].name
           /\ successes = 0 => results.best_method = "selenium"

\* only fake_useragent imported: three methods attempted, the first failed,
\* the other two succeeded
C15_Witness ==
    /\ ppc = "done"
    /\ caps = {"fake_useragent"}
    /\ Len(results.bypass_methods) = 3
    /\ ~results.bypass_methods[1].success
    /\ results.bypass_methods[2].success
    /\ results.bypass_methods[3].success
    /\ results.best_method = "requests_session"
    /\ results.bypass_success_rate = [num |-> 200, den |-> 3]

\* C16: every report analyze returns, on the short-circuit path as on the
\* normal path, carries all fields of the data model, best_method and
\* bypass_success_rate among them.
C16_ReportHasAllFields ==
    ppc = "done" =>
       {"url", "mechanisms", "bypass_methods", "total_score",
        "complexity_level", "best_method", "bypass_success_rate"}
          \subseteq DOMAIN results

C18_BrowserReleasedAtTeardown ==
    (\A t \in Threads : run[t] = "exited") => shared_driver = 0

\* C19: analyses that overlap never drive the same browser, and the lazy
\* check-then-create of driver never starts a second browser for the one
\* engine.
C19_BrowserNeverShared ==
    /\ \A t1, t2 \in Threads :
          (t1 # t2 /\ using[t1] # 0) => using[t1] # using[t2]
    /\ browsers <= 1

\* C20: every request of the protection engine, through self.session or
\* through a fresh session, is under the bounded retry policy: it is
\* attempted at most 3 times in all, an attempt is repeated only after an
\* answer with status 429, 500, 502, 503 or 504, and such an answer reaches
\* the caller only when the attempts are used up.
C20_RequestsUnderRetryPolicy ==
    /\ Len(answers) <= 3
    /\ \A k \in 1..(Len(answers) - 1) : answers[k] \in status_forcelist
    /\ (rpc = "answered" /\ answers[Len(answers)] \in status_forcelist)
          => Len(answers) = 3

(***************************************************************************)
(* The order of the probes, their scores, and the two probe loops.         *)
(***************************************************************************)
C21_Order ==
    <<"basic_access", "user_agent", "rate_limiting", "cloudflare",
      "javascript", "captcha", "cookies">>

C21_Names ==
    [i \in 1..Len(results.mechanisms) |-> results.mechanisms[i].name]

\* C21: when basic access succeeded the probes run one after another in the
\* order basic_access, user_agent, rate_limiting, cloudflare, javascript,
\* captcha, cookies, then the bypass tests: the findings recorded so far are
\* a prefix of that order, the probe that is running is the next one, a
\* probe has sent a request only when every earlier finding is recorded,
\* and the score, the level and the best method are set only once all
\* seven findings are there
C21_ProbesInOrder ==
    (/\ prot_url # NotCalled
     /\ Len(results.mechanisms) >= 1
     /\ results.mechanisms[1].detected) =>
       LET n == Len(results.mechanisms)
       IN  /\ n <= 7
           /\ C21_Names = SubSeq(C21_Order, 1, n)
           /\ ppc \in {IF n < 7 THEN C21_Order[n + 1] ELSE "bypass",
                       "done", "raised"}
           /\ \A k \in 1..7 : C21_Order[k] \in issued => n >= k - 1
           /\ "bypass" \in issued => n = 7
           /\ ppc = "done" => (n = 7 /\ issued = ProbeNames)
           /\ (\/ results.total_score # 0
               \/ results.complexity_level # "LOW"
               \/ "best_method" \in DOMAIN results) =>
                 (n = 7 /\ ppc = "done")

C21_Witness ==
    /\ ppc = "done"
    /\ C21_Names = C21_Order
    /\ issued = ProbeNames
    /\ results.total_score = 45
    /\ results.complexity_level = "MEDIUM"

C22_Table ==
    [user_agent |-> <<20, 5>>, rate_limiting |-> <<15, 5>>,
     cloudflare |-> <<25, 0>>, javascript |-> <<30, 10>>,
     captcha |-> <<40, 0>>, cookies |-> <<10, 5>>]

\* C22: in every report the score of a mechanism other than basic_access is
\* fixed by its detected flag: user_agent 20 / 5, rate_limiting 15 / 5,
\* cloudflare 25 / 0, javascript 30 / 10, captcha 40 / 0, cookies 10 / 5
C22_ScoresFollowTable ==
    \A i \in 1..Len(results.mechanisms) :
       LET m == results.mechanisms[i]
       IN  m.name # "basic_access" =>
              /\ m.name \in DOMAIN C22_Table
              /\ m.score = IF m.detected THEN C22_Table[m.name][1]
                           ELSE C22_Table[m.name][2]

C22_Witness ==
    /\ ppc = "done"
    /\ Len(results.mechanisms) = 7
    /\ results.mechanisms[2].detected /\ results.mechanisms[2].score = 20
    /\ ~results.mechanisms[3].detected /\ results.mechanisms[3].score = 5
    /\ ~results.mechanisms[4].detected /\ results.mechanisms[4].score = 0
    /\ results.mechanisms[5].detected /\ results.mechanisms[5].score = 30
    /\ results.mechanisms[6].detected /\ results.mechanisms[6].score = 40
    /\ ~results.mechanisms[7].detected /\ results.mechanisms[7].score = 5

\* C23: the User-Agent probe sends exactly 4 requests, the i-th with the
\* i-th fixed agent as its User-Agent header; a request is blocked exactly
\* when its status is 403, 429 or 503 or it raised; the finding is detected
\* exactly when at least one request was blocked
C23_UserAgentProbe ==
    [][/\ (ppc # "user_agent" /\ ppc' = "user_agent") =>
             (loop_i' = 0 /\ blocked_count' = 0)
       /\ (ppc = "user_agent" /\ loop_i' # loop_i /\ ppc' = "user_agent") =>
             /\ loop_i < 4
             /\ loop_i' = loop_i + 1
             /\ last'.user_agent = user_agents[loop_i']
             /\ last'.blocked <=>
                   (last'.status_code \in {403, 429, 503}
                    \/ last'.status_code = 0)
             /\ blocked_count' =
                   blocked_count + (IF last'.blocked THEN 1 ELSE 0)
       /\ (ppc = "user_agent" /\ ppc' # "user_agent") =>
             /\ loop_i = 4
             /\ ppc' = "rate_limiting"
             /\ results'.mechanisms[2].name = "user_agent"
             /\ results'.mechanisms[2].detected <=> blocked_count > 0
      ]_vars

C23_Witness ==
    /\ ppc = "user_agent"
    /\ loop_i = 4
    /\ blocked_count = 1
    /\ last.user_agent = "bot/1.0"
    /\ last.status_code = 403
    /\ last.blocked

\* C24: the rate-limit probe sends exactly 10 requests, a request is blocked
\* exactly when its status is 429 or 503 or it raised (403 is not), a
\* request that raised is followed by the remaining ones, and the probe
\* ends by reporting detected exactly when at least one was blocked
C24_RateLimitProbe ==
    [][/\ (ppc # "rate_limiting" /\ ppc' = "rate_limiting") =>
             (loop_i' = 0 /\ blocked_count' = 0)
       /\ (ppc = "rate_limiting" /\ loop_i' # loop_i
           /\ ppc' = "rate_limiting") =>
             /\ loop_i < 10
             /\ loop_i' = loop_i + 1
             /\ last'.blocked <=>
                   (last'.status_code \in {429, 503}
                    \/ last'.status_code = 0)
             /\ blocked_count' =
                   blocked_count + (IF last'.blocked THEN 1 ELSE 0)
       /\ (ppc = "rate_limiting" /\ ppc' # "rate_limiting") =>
             /\ loop_i = 10
             /\ ppc' = "cloudflare"
             /\ results'.mechanisms[3].name = "rate_limiting"
             /\ results'.mechanisms[3].detected <=> blocked_count > 0
      ]_vars

C29_ReportWhenRequestsFail ==
    (offline /\ basic_raw = 200 /\ ppc \in {"done", "raised"}) =>
       /\ ppc = "done"
       /\ Len(results.mechanisms) = 7
       /\ [i \in 1..7 |-> results.mechanisms[i].detected] =
             <<TRUE, TRUE, TRUE, FALSE, FALSE, FALSE, FALSE>>
       /\ [i \in 1..7 |-> results.mechanisms[i].score] =
             <<10, 20, 15, 0, 10, 0, 5>>
       /\ results.total_score = 60
       /\ results.complexity_level = "HIGH"
       /\ \A i \in 1..Len(results.bypass_methods) :
             ~results.bypass_methods[i].success
       /\ results.best_method = "selenium"
       /\ results.bypass_success_rate.num = 0

(***************************************************************************)
(* What the Cloudflare and CAPTCHA probes make of a page.                  *)
(***************************************************************************)
C25_g_recaptcha ==
    <<"g", "-", "r", "e", "c", "a", "p", "t", "c", "h", "a">>

C25_checking ==
    <<"c", "h", "e", "c", "k", "i", "n", "g", " ", "y", "o", "u", "r", " ",
      "b", "r", "o", "w", "s", "e", "r">>

C25_CaptchaPhrases == {captcha_words[i] : i \in 1..6}

C25_CloudflareSigns ==
    \/ "server" \in DOMAIN page.headers
       /\ Contains(Lower(page.headers["server"]), cf_words.server)
    \/ "cf-ray" \in DOMAIN page.headers
    \/ "set-cookie" \in DOMAIN page.headers
       /\ Contains(page.headers["set-cookie"], cf_words.set_cookie)
    \/ Contains(Lower(page.text), cf_words.checking)
    \/ Contains(Lower(page.text), cf_words.ray_id)
    \/ Contains(page.text, cf_words.verification)

\* C25: a page whose body holds "g-recaptcha" and "checking your browser",
\* once both probes got it, is reported with captcha detected, score 40, and
\* cloudflare detected, score 25; in general captcha is detected exactly
\* when the lower-cased body received holds one of the six CAPTCHA phrases,
\* and cloudflare exactly when the response received shows the server
\* header, the cf-ray header, the __cfduid cookie or a body phrase
C25_PageIndicators ==
    cpc = "done" =>
       /\ (/\ received = {"cloudflare", "captcha"}
           /\ Contains(page.text, C25_g_recaptcha)
           /\ Contains(page.text, C25_checking)) =>
             /\ captcha = [name |-> "captcha", detected |-> TRUE,
                           score |-> 40]
             /\ cloudflare = [name |-> "cloudflare", detected |-> TRUE,
                              score |-> 25]
       /\ captcha.detected <=>
             /\ "captcha" \in received
             /\ \E w \in C25_CaptchaPhrases : Contains(Lower(page.text), w)
       /\ cloudflare.detected <=>
             ("cloudflare" \in received /\ C25_CloudflareSigns)

C25_Witness ==
    /\ cpc = "done"
    /\ received = {"cloudflare", "captcha"}
    /\ Contains(page.text, C25_g_recaptcha)
    /\ Contains(page.text, C25_checking)
    /\ page.headers = <<>>
    /\ captcha.score = 40
    /\ cloudflare.score = 25

(***************************************************************************)
(* The two scores of the structure engine.                                 *)
(***************************************************************************)
C26_Increments ==
    (IF metrics.scripts_count > 10 THEN 30
     ELSE IF metrics.scripts_count > 5 THEN 15 ELSE 0)
    + (IF metrics.frameworks_detected # {} THEN 25 ELSE 0)
    + (IF metrics.forms_count > 3 THEN 15 ELSE 0)
    + (IF performance.loading_complexity = "HIGH" THEN 20 ELSE 0)
    + (IF metrics.max_nesting_depth > 15 THEN 10 ELSE 0)

C26_Advice ==
    [LOW |-> "u041fu0440u043eu0441u0442u043eu0439 requests + BeautifulSoup",
     MEDIUM |-> "Requests + BeautifulSoup u0441 u043eu0441u0442u043eu0440u043eu0436u043du043eu0441u0442u044cu044e",
     HIGH |-> "u0420u0435u043au043eu043cu0435u043du0434u0443u0435u0442u0441u044f Selenium",
     VERY_HIGH |->
        "Selenium u0438u043bu0438 Playwright u043eu0431u044fu0437u0430u0442u0435u043bu044cu043du044b"]

\* C26: the parsing-complexity score is the sum of +30 for more than 10
\* scripts (else +15 for more than 5), +25 for a detected framework, +15 for
\* more than 3 forms, +20 for a HIGH performance tier and +10 for a nesting
\* depth above 15; the level is LOW below 30, MEDIUM below 50, HIGH below
\* 70 and VERY_HIGH from 70, and the recommendation is the text of the level
C26_ParsingComplexity ==
    mpc = "done" =>
       LET score == parsing_complexity.score
       IN  /\ score = C26_Increments
           /\ score < 30 => parsing_complexity.level = "LOW"
           /\ (score >= 30 /\ score < 50) =>
                 parsing_complexity.level = "MEDIUM"
           /\ (score >= 50 /\ score < 70) =>
                 parsing_complexity.level = "HIGH"
           /\ score >= 70 => parsing_complexity.level = "VERY_HIGH"
           /\ parsing_complexity.level \in DOMAIN C26_Advice
           /\ parsing_complexity.recommendation =
                 C26_Advice[parsing_complexity.level]

C26_Witness ==
    /\ mpc = "done"
    /\ metrics.scripts_count = 6
    /\ metrics.forms_count = 4
    /\ metrics.frameworks_detected # {}
    /\ parsing_complexity.score = 55
    /\ parsing_complexity.level = "HIGH"

\* C28: the performance score is at most 62.5, so it is never above 70, the
\* performance tier is LOW or MEDIUM and never HIGH, the +20 of the
\* parsing-complexity score is never added and that score is at most 80
C28_PerformanceNeverHigh ==
    /\ mpc \in {"parsing_complexity", "done"} =>
          /\ 10 * performance.complexity_score.num
                <= 625 * performance.complexity_score.den
          /\ performance.complexity_score.num
                <= 70 * performance.complexity_score.den
          /\ performance.loading_complexity \in {"LOW", "MEDIUM"}
    /\ mpc = "done" =>
          /\ parsing_complexity.score <= 80
          /\ parsing_complexity.score =
                (IF metrics.scripts_count > 10 THEN 30
                 ELSE IF metrics.scripts_count > 5 THEN 15 ELSE 0)
                + (IF metrics.frameworks_detected # {} THEN 25 ELSE 0)
                + (IF metrics.forms_count > 3 THEN 15 ELSE 0)
                + (IF metrics.max_nesting_depth > 15 THEN 10 ELSE 0)

C28_Witness ==
    /\ mpc = "done"
    /\ metrics.page_size > 100000
    /\ metrics.external_resources > 50
    /\ 10 * performance.complexity_score.num
          = 625 * performance.complexity_score.den
    /\ performance.loading_complexity = "MEDIUM"
    /\ parsing_complexity.score = 80

(***************************************************************************)
(* retry_on_failure.                                                       *)
(***************************************************************************)
C30_Failed == {i \in 1..Len(history) : ~history[i].ok}

\* C30: with max_attempts = n >= 1 the function is called at most n times;
\* the wrapper returns the result of the first call that does not raise
\* and calls no more; it waits after a failed attempt that is not the n-th
\* one and never after the n-th; after n failures it raises the exception
\* of the n-th call
C30_RetryOnFailure ==
    max_attempts >= 1 =>
       /\ Len(history) <= max_attempts
       /\ \A i \in 1..(Len(history) - 1) : ~history[i].ok
       /\ Len(sleeps) <= max_attempts - 1
       /\ Len(sleeps) <= Cardinality(C30_Failed)
       /\ \A i \in 1..Len(sleeps) : sleeps[i] = delay * i
       /\ wpc = "try" =>
             (Len(history) = attempt /\ Len(sleeps) = Len(history))
       /\ outcome.kind = "returned" <=>
             (history # <<>> /\ history[Len(history)].ok)
       /\ outcome.kind = "returned" =>
             /\ outcome.v = history[Len(history)].v
             /\ Len(sleeps) = Len(history) - 1
             /\ wpc = "done"
       /\ outcome.kind = "raised" =>
             /\ Len(history) = max_attempts
             /\ C30_Failed = 1..max_attempts
             /\ outcome.v = history[max_attempts].v
             /\ Len(sleeps) = max_attempts - 1
             /\ wpc = "done"
       /\ wpc = "done" => outcome.kind \in {"returned", "raised"}

C30_Witness ==
    /\ max_attempts = 3
    /\ delay = 2
    /\ outcome = [kind |-> "raised", v |-> "E2"]
    /\ history = <<[ok |-> FALSE, v |-> "E1"], [ok |-> FALSE, v |-> "E1"],
                   [ok |-> FALSE, v |-> "E2"]>>
    /\ sleeps = <<2, 4>>

====
